---- MODULE Spec2Model ----
(***************************************************************************)
(* A model of the agentic-c-eda host defense daemon and its dashboard:     *)
(*   - the relational store (src/daemon/database.py),                      *)
(*   - the two agent loops (src/web-dashboard/chat.py, agent.py) and the   *)
(*     tool registry / proposal executor (src/web-dashboard/tools.py),     *)
(*   - the batch scheduler (src/daemon/main.py) with the dashboard's       *)
(*     purge and flag endpoints (src/web-dashboard/api.py),                *)
(*   - the PTY session (src/daemon/pty_manager.py).                        *)
(* Each subsystem has its own specification over the shared variables.     *)
(***************************************************************************)
EXTENDS Integers, Sequences, FiniteSets, TLC

VARIABLES
    \* ---- the store (database.py): tables and their AUTOINCREMENT counters
    chat_messages,      \* sequence of [id, role, inv]
    chat_seq,           \* sqlite_sequence of chat_messages
    flags,              \* sequence of [id, status, severity, event_ids, batch_id]
    flag_seq,           \* sqlite_sequence of flags
    config,             \* [ignored_ports, ignored_ips, batch_interval, trusted_ports_manual]
    events,             \* set of [id, batch_id, ts, raw]
    event_seq,          \* sqlite_sequence of events
    decisions,          \* set of [id, batch_id, event_count, verdict, ts]
    decision_seq,       \* sqlite_sequence of decisions
    \* ---- one agent-loop invocation (chat.py stream_chat / agent.py chat)
    agent_pc,           \* "idle" | "loop" | "returned" | "raised"
    loop_kind,          \* "ChatEngine" | "ChatAgent"
    iteration,          \* value of the loop index of `for i in range(5)`
    llm_calls,          \* _call_llm calls made by this invocation
    tool_execs,         \* tool executions made by this invocation
    data_results,       \* iterations of this invocation that appended a tool result
    emitted,            \* the events yielded by this invocation, in order
    user_msg_id,        \* id of the user message this invocation persisted
    last_response,      \* the parsed LLM response of the latest iteration
    invocations,        \* number of invocations started so far
    approvals,          \* number of operator approval steps performed so far
    shells_started,     \* shell processes / PTY sessions started by the dashboard
    \* ---- the daemon's main loop (main.py) and the wall clock
    sched_pc,           \* "down" | "read" | "check" | "flag"
    event_buffer,       \* the events of the open window, in arrival order
    event_ids_for_batch,\* their ids in the store
    buffer_start_time,  \* None, or the time the window opened
    batch_id,           \* the batch id of the open window
    analysis_interval,  \* the interval read at start-up
    result,             \* the verdict of analyze_batch not yet persisted as a flag
    now,                \* the wall clock
    restarts,           \* daemon starts so far
    purges,             \* purge / cleanup requests so far
    purge_pc,           \* position of the purge endpoint: "idle" | "events_purged"
    fired_batch_ids,    \* history: the batch ids of the windows fired so far
    \* ---- PTY sessions (pty_manager.py) and the operating system under them
    pty_sessions,       \* session id -> [state, master_fd, pid, closed, exit_code,
                        \*                last_activity]
    pty_child,          \* session id -> [status, wstatus, signals]: the child process
    open_fds,           \* the descriptors open in the service process
    \* ---- the log tailer and reduction pipeline (watchdog.py), the monitored
    \*      file and its writer
    wd_pc,              \* "absent" | "constructed" | "streaming"
    wd_ignored_ports,   \* LogWatchdog.ignored_ports
    wd_ignored_ips,     \* LogWatchdog.ignored_ips
    trusted_internal_ports, \* config.TRUSTED_INTERNAL_PORTS of the daemon process
    wd_start_time,      \* LogWatchdog.start_time: [sec, micro]
    wd_handle,          \* the inode the open file handle reads, 0 if none
    wd_file_inode,      \* LogWatchdog.file_inodes[path]
    wd_position,        \* LogWatchdog.file_positions[path], in chunks read
    pending_lines,      \* LogWatchdog.pending_lines
    delivered,          \* history: the events read_stream has returned
    metrics,            \* InstrumentedWatchdog.metrics: the per-stage counters
    fs_path_inode,      \* the inode the monitored path names, 0 if none
    fs_files,           \* inode -> the chunks [line, part] appended to that file
    lines_written,      \* lines the writer has appended so far
    writer_pc,          \* the writer's position in its script
    \* ---- the PTY service (pty_service.py): session table, connections, PTYs
    pty_table,          \* PTYSessionManager.sessions: the ids in the table
    fd_pty,             \* master descriptor -> [owner, unread]: the PTY it names
    conns,              \* connection -> [state, sid, peer_open, frames, out_pc,
                        \*                idle_count, read_fd, in_alive]
    child_writes,       \* chunks the children have written so far
    \* ---- the dashboard's terminal endpoints (api.py)
    pending_commands,   \* _pending_commands: command id -> command
    prepare_log,        \* history: the ids prepare_terminal_command has issued
    ws                  \* websocket -> [pc, command_id, command, started]

storeVars == <<chat_messages, chat_seq, flags, flag_seq, config>>
batchStoreVars == <<events, event_seq, decisions, decision_seq>>
schedVars == <<sched_pc, event_buffer, event_ids_for_batch, buffer_start_time,
               batch_id, analysis_interval, result, now, restarts, purges, purge_pc,
               fired_batch_ids>>
agentVars == <<agent_pc, loop_kind, iteration, llm_calls, tool_execs, data_results,
               emitted, user_msg_id, last_response, invocations, approvals,
               shells_started>>
ptyVars == <<pty_sessions, pty_child, open_fds>>
tailVars == <<wd_start_time, wd_handle, wd_file_inode, wd_position, pending_lines,
              delivered, metrics>>
fileVars == <<fs_path_inode, fs_files, lines_written, writer_pc>>
wdVars == <<wd_pc, wd_ignored_ports, wd_ignored_ips, trusted_internal_ports,
            tailVars, fileVars>>
svcVars == <<pty_table, fd_pty, conns, child_writes>>
termVars == <<pending_commands, prepare_log, ws>>
vars == <<storeVars, batchStoreVars, agentVars, schedVars, ptyVars, wdVars, svcVars,
          termVars>>

(***************************************************************************)
(* Bounds of the model                                                     *)
(***************************************************************************)
MaxInvocations == 2
MaxAgentFlags == 1
MaxApprovals == 1
MaxEvents == 2
MaxTime == 2
MaxRestarts == 2
MaxPurges == 1
MaxFlags == 3
MaxSessions == 1
MaxAppends == 2
MaxLinesPerFile == 5
MaxConns == 1
MaxWrites == 2
max_idle == 1
SessionTimeout == 1

(***************************************************************************)
(* Program constants                                                       *)
(***************************************************************************)
\* a loop that asks the model once more than the source's range(5)
SixIterations == 5 + 1

\* chat.py 283, agent.py 161: for i in range(5)
MAX_ITERATIONS == 5
SIGINT == 2
SIGTERM == 15
\* batch_interval as configured for the model's clock, whose unit is one
\* default interval
DEFAULT_BATCH_INTERVAL == 1
None == -1

Last(s) == s[Len(s)]

TerminalStatuses == {"resolved", "dismissed"}
FlagStatuses == {"pending"} \cup TerminalStatuses
\* status values a caller can send: the three of the schema and one outside it
StatusInputs == FlagStatuses \cup {"open"}
Severities == {"info", "warning", "critical"}

\* a port and an address an operator may put on the ignore lists; an address
\* is the tuple of its octets
Ports == {8080}
IPs == {<<10, 0, 0, 5>>}

(***************************************************************************)
(* The store: database.py                                                  *)
(***************************************************************************)
\* INSERT INTO chat_messages: the row gets the next AUTOINCREMENT id
\* an insert that would replace the history instead of appending to it
Database_insert_chat_message_replacing(msgs, seq, role, inv) ==
    <<[id |-> seq + 1, role |-> role, inv |-> inv]>>

Database_insert_chat_message(msgs, seq, role, inv) ==
    Append(msgs, [id |-> seq + 1, role |-> role, inv |-> inv])

\* an update that would insert the row when no flag has the id
Database_update_flag_status_upsert(fl, flag_id, status) ==
    IF \E i \in DOMAIN fl : fl[i].id = flag_id
    THEN [i \in DOMAIN fl |->
            IF fl[i].id = flag_id THEN [fl[i] EXCEPT !.status = status] ELSE fl[i]]
    ELSE Append(fl, [id |-> flag_id, status |-> status, severity |-> "warning",
                     event_ids |-> <<>>, batch_id |-> 0])

\* database.py 292-294: UPDATE flags SET status = ? WHERE id = ?
Database_update_flag_status(fl, flag_id, status) ==
    [i \in DOMAIN fl |->
        IF fl[i].id = flag_id THEN [fl[i] EXCEPT !.status = status] ELSE fl[i]]

\* INSERT INTO flags (..., status) VALUES (..., 'pending')
Database_insert_flag(fl, seq, event_ids, severity, batch) ==
    Append(fl, [id |-> seq + 1, status |-> "pending", severity |-> severity,
                event_ids |-> event_ids, batch_id |-> batch])

(***************************************************************************)
(* Parsed LLM responses: what _parse_tool_call returns.  tool = "none" is  *)
(* a reply with no tool call (this is also what a failed LLM call gives:   *)
(* _call_llm returns the text "Error calling LLM: ...").  args_ok = FALSE  *)
(* stands for parameters the handler cannot take.                          *)
(***************************************************************************)
DataTools == {"get_events", "get_flags"}
ProposalTools == {"propose_command", "propose_ignore_port", "propose_ignore_ip"}
RegistryTools == DataTools \cup ProposalTools \cup {"resolve_flag"}
EngineTools == DataTools \cup {"propose_command"}
ToolNames == RegistryTools \cup {"no_such_tool"}

Response(t, ok, f, s, ce) ==
    [tool |-> t, args_ok |-> ok, flag_id |-> f, status |-> s, clean_empty |-> ce]

NoResponse == Response("none", TRUE, 0, "-", FALSE)

Responses ==
    {NoResponse}
    \cup {Response(t, ok, 0, "-", FALSE) :
            t \in DataTools \cup {"no_such_tool"}, ok \in BOOLEAN}
    \cup {Response(t, ok, 0, "-", ce) :
            t \in ProposalTools, ok \in BOOLEAN, ce \in BOOLEAN}
    \cup {Response("resolve_flag", TRUE, f, s, FALSE) :
            f \in 1..(MaxAgentFlags + 1), s \in StatusInputs}
    \cup {Response("resolve_flag", FALSE, 0, "-", FALSE)}

(***************************************************************************)
(* Tool dispatch: tools.py ToolRegistry and chat.py ChatEngine             *)
(***************************************************************************)
\* ToolRegistry.resolve_flag: validates the status, then updates the row
ToolRegistry_resolve_flag(fl, flag_id, status) ==
    IF status \notin TerminalStatuses
    THEN [type |-> "error", flags |-> fl]
    ELSE [type |-> "tool_result",
          flags |-> Database_update_flag_status(fl, flag_id, status)]

\* ToolRegistry.execute_tool: unknown name or handler exception -> error
ToolRegistry_execute_tool(r, fl) ==
    IF r.tool \notin RegistryTools THEN [type |-> "error", flags |-> fl]
    ELSE IF ~r.args_ok THEN [type |-> "error", flags |-> fl]
    ELSE IF r.tool \in DataTools THEN [type |-> "tool_result", flags |-> fl]
    ELSE IF r.tool \in ProposalTools THEN [type |-> "proposal", flags |-> fl]
    ELSE ToolRegistry_resolve_flag(fl, r.flag_id, r.status)

\* ChatEngine._execute_tool: three tools; no try/except around the handlers
ChatEngine_execute_tool(r) ==
    IF r.tool \notin EngineTools THEN "error"
    ELSE IF ~r.args_ok THEN "raise"
    ELSE IF r.tool = "propose_command" THEN "proposal"
    ELSE "result"

(***************************************************************************)
(* ProposalExecutor (tools.py): the operator's approval of a proposal      *)
(***************************************************************************)
ProposalActions == {"run_command", "ignore_port", "ignore_ip", "other"}

ProposalExecutor_add_ignore_port(cfg, port) ==
    [cfg EXCEPT !.ignored_ports = @ \cup {port}]

ProposalExecutor_add_ignore_ip(cfg, ip) ==
    [cfg EXCEPT !.ignored_ips = @ \cup {ip}]

ProposalExecutor_execute(cfg, action, port, ip) ==
    CASE action = "ignore_port" -> ProposalExecutor_add_ignore_port(cfg, port)
      [] action = "ignore_ip" -> ProposalExecutor_add_ignore_ip(cfg, ip)
      [] OTHER -> cfg


(***************************************************************************)
(* Initial state of the batch tables and of the daemon (not yet started)   *)
(***************************************************************************)
\* main.py 170: no verdict has been computed yet
NoVerdict == [flagged |-> FALSE, severity |-> "info", summary |-> [text |-> "none", n |-> 0]]

InitBatchStore ==
    /\ events = {}
    /\ event_seq = 0
    /\ decisions = {}
    /\ decision_seq = 0

InitSchedDown ==
    /\ sched_pc = "down"
    /\ event_buffer = <<>>
    /\ event_ids_for_batch = <<>>
    /\ buffer_start_time = None
    /\ batch_id = 0
    /\ analysis_interval = 0
    /\ result = NoVerdict
    /\ now = 0
    /\ restarts = 0
    /\ purges = 0
    /\ purge_pc = "idle"
    /\ fired_batch_ids = {}


(***************************************************************************)
(* Initial state of the PTY side: no session object, no child, no          *)
(* descriptor of a session open                                            *)
(***************************************************************************)
SessionIds == 1..MaxSessions

\* the dataclass defaults of PTYSession (pty_manager.py 19-27)
NoSession ==
    [state |-> "absent", master_fd |-> -1, pid |-> -1, closed |-> FALSE,
     exit_code |-> None, last_activity |-> 0]

NoWaitStatus == [kind |-> "none", val |-> 0]

NoChild == [status |-> "none", wstatus |-> NoWaitStatus, signals |-> {}]

\* the descriptors the service process holds before any session: its stdio
StdioFds == {0, 1, 2}

\* the session ids the service hands out when connections race: one more
\* than a single client uses
ServiceSessionIds == 1..(MaxSessions + 1)

ConnIds == 1..MaxConns

\* the connections of a run in which one more client connects
ServiceConnIds == 1..(MaxConns + 1)

\* a connection slot nobody has connected on yet
NoConn ==
    [state |-> "free", sid |-> 0, peer_open |-> TRUE, frames |-> <<>>,
     out_pc |-> "none", idle_count |-> 0, read_fd |-> -1, in_alive |-> FALSE]

\* pty_manager.py 185-187: an empty table; no PTY, no connection
InitService ==
    /\ pty_table = {}
    /\ fd_pty = [f \in {} |-> [owner |-> 0, unread |-> 0]]
    /\ conns = [c \in ServiceConnIds |-> NoConn]
    /\ child_writes = 0

MaxPrepares == 2
MaxSockets == 2

WsIds == 1..MaxSockets
NoCommand == ""
NoSocket == [pc |-> "idle", command_id |-> NoCommand, command |-> NoCommand,
             started |-> FALSE]

\* api.py 603: _pending_commands = {}; no websocket opened
InitTerminal ==
    /\ pending_commands = [k \in {} |-> NoCommand]
    /\ prepare_log = <<>>
    /\ ws = [w \in WsIds |-> NoSocket]

InitPty ==
    /\ pty_sessions = [s \in ServiceSessionIds |-> NoSession]
    /\ pty_child = [s \in ServiceSessionIds |-> NoChild]
    /\ open_fds = StdioFds
    /\ InitService
    /\ InitTerminal

(***************************************************************************)
(* The log tailer before it is constructed, and the monitored file.        *)
(***************************************************************************)
\* the two files a rotation involves: the one the path names at start and
\* the one created at the same path afterwards
Inodes == {1, 2}

NoStartTime == [sec |-> None, micro |-> 0]

ZeroMetrics ==
    [raw_lines |-> 0, noise_filtered |-> 0, trust_filtered |-> 0,
     parse_failed |-> 0, events_output |-> 0]

InitTailer ==
    /\ wd_pc = "absent"
    /\ wd_ignored_ports = {}
    /\ wd_ignored_ips = {}
    /\ wd_start_time = NoStartTime
    /\ wd_handle = 0
    /\ wd_file_inode = 0
    /\ wd_position = 0
    /\ pending_lines = <<>>
    /\ delivered = <<>>
    /\ metrics = ZeroMetrics

InitFiles(script) ==
    /\ fs_path_inode = 1
    /\ fs_files = [i \in Inodes |-> <<>>]
    /\ lines_written = <<>>
    /\ writer_pc = [script |-> script, step |-> 0]

\* config.py 26: no port is trusted until service discovery has run
InitWatchdog ==
    /\ trusted_internal_ports = {}
    /\ InitTailer
    /\ InitFiles("idle")

(***************************************************************************)
(* Initial states of the agent specification: a store that already holds   *)
(* flags in any of the three statuses, and no invocation running.          *)
(***************************************************************************)
\* the configuration of a fresh store: every get_config falls back to its default
DefaultConfig ==
    [ignored_ports |-> {}, ignored_ips |-> {}, batch_interval |-> DEFAULT_BATCH_INTERVAL,
     trusted_ports_manual |-> {}, trusted_ports_dynamic |-> {}]

InitialFlag(i, st) ==
    [id |-> i, status |-> st, severity |-> "warning", event_ids |-> <<i>>,
     batch_id |-> i]

InitStoreAgent ==
    /\ chat_messages = <<>>
    /\ chat_seq = 0
    /\ \E st \in [1..MaxAgentFlags -> FlagStatuses] :
          flags = [i \in 1..MaxAgentFlags |-> InitialFlag(i, st[i])]
    /\ flag_seq = MaxAgentFlags
    /\ config = DefaultConfig

InitAgentLoop ==
    /\ agent_pc = "idle"
    /\ loop_kind = "ChatEngine"
    /\ iteration = 0
    /\ llm_calls = 0
    /\ tool_execs = 0
    /\ data_results = 0
    /\ emitted = <<>>
    /\ user_msg_id = 0
    /\ last_response = [tool |-> "none", args_ok |-> TRUE]
    /\ invocations = 0
    /\ approvals = 0
    /\ shells_started = 0

InitAgent ==
    /\ InitStoreAgent /\ InitAgentLoop /\ InitBatchStore /\ InitSchedDown /\ InitPty
    /\ InitWatchdog

(***************************************************************************)
(* The agent loops.  Both persist the user message, yield a status event,  *)
(* read the history and then run `for i in range(5)`.                      *)
(***************************************************************************)
\* chat.py 271-281 / agent.py 149-159: the part before the loop
BeginInvocation(kind) ==
    /\ agent_pc # "loop"
    /\ invocations < MaxInvocations
    /\ chat_messages' = Database_insert_chat_message(chat_messages, chat_seq,
                                                     "user", invocations + 1)
    /\ chat_seq' = chat_seq + 1
    /\ user_msg_id' = chat_seq + 1
    /\ invocations' = invocations + 1
    /\ loop_kind' = kind
    /\ agent_pc' = "loop"
    /\ iteration' = 0
    /\ llm_calls' = 0
    /\ tool_execs' = 0
    /\ data_results' = 0
    /\ last_response' = [tool |-> "none", args_ok |-> TRUE]
    /\ emitted' = <<"status">>

ChatEngine_stream_chat_begin ==
    /\ BeginInvocation("ChatEngine")
    /\ UNCHANGED <<flags, flag_seq, config, approvals, shells_started>>

ChatAgent_chat_begin ==
    /\ BeginInvocation("ChatAgent")
    /\ UNCHANGED <<flags, flag_seq, config, approvals, shells_started>>

\* chat.py 283-317: one pass of the loop body of ChatEngine.stream_chat
ChatEngine_stream_chat_iteration(r) ==
    /\ agent_pc = "loop"
    /\ loop_kind = "ChatEngine"
    /\ iteration < MAX_ITERATIONS
    /\ llm_calls' = llm_calls + 1
    /\ last_response' = [tool |-> r.tool, args_ok |-> r.args_ok]
    /\ iteration' = iteration + 1
    /\ IF r.tool = "none"
       THEN \* no tool call: clean, persist, text, done
            /\ chat_messages' = Database_insert_chat_message(
                                    chat_messages, chat_seq, "assistant", invocations)
            /\ chat_seq' = chat_seq + 1
            /\ emitted' = emitted \o <<"text", "done">>
            /\ agent_pc' = "returned"
            /\ UNCHANGED <<tool_execs, data_results>>
       ELSE LET res == ChatEngine_execute_tool(r) IN
            /\ tool_execs' = tool_execs + 1
            /\ CASE res = "proposal" ->
                      /\ chat_messages' = Database_insert_chat_message(
                                    chat_messages, chat_seq, "assistant", invocations)
                      /\ chat_seq' = chat_seq + 1
                      /\ emitted' = emitted \o <<"status", "proposal", "done">>
                      /\ agent_pc' = "returned"
                      /\ UNCHANGED data_results
                 [] res = "result" ->
                      /\ emitted' = Append(emitted, "status")
                      /\ data_results' = data_results + 1
                      /\ UNCHANGED <<chat_messages, chat_seq, agent_pc>>
                 [] OTHER ->
                      \* "raise": the handler raised; "error": result['data']
                      \* raises KeyError at line 310.  The generator dies.
                      /\ emitted' = Append(emitted, "status")
                      /\ agent_pc' = "raised"
                      /\ UNCHANGED <<chat_messages, chat_seq, data_results>>
    /\ UNCHANGED <<flags, flag_seq, config, loop_kind, user_msg_id, invocations,
                   approvals, shells_started>>

\* chat.py 319-320: the loop ran out
ChatEngine_stream_chat_exhausted ==
    /\ agent_pc = "loop"
    /\ loop_kind = "ChatEngine"
    /\ iteration >= MAX_ITERATIONS
    /\ emitted' = emitted \o <<"text_max_tool_calls", "done">>
    /\ agent_pc' = "returned"
    /\ UNCHANGED <<storeVars, loop_kind, iteration, llm_calls, tool_execs,
                   data_results, user_msg_id, last_response, invocations,
                   approvals, shells_started>>

\* agent.py 161-197: one pass of the loop body of ChatAgent.chat
ChatAgent_chat_iteration(r) ==
    /\ agent_pc = "loop"
    /\ loop_kind = "ChatAgent"
    /\ iteration < MAX_ITERATIONS
    /\ llm_calls' = llm_calls + 1
    /\ last_response' = [tool |-> r.tool, args_ok |-> r.args_ok]
    /\ iteration' = iteration + 1
    /\ IF r.tool = "none"
       THEN /\ chat_messages' = Database_insert_chat_message(
                                    chat_messages, chat_seq, "assistant", invocations)
            /\ chat_seq' = chat_seq + 1
            /\ emitted' = emitted \o <<"status", "text">>
            /\ agent_pc' = "returned"
            /\ UNCHANGED <<tool_execs, data_results, flags>>
       ELSE LET res == ToolRegistry_execute_tool(r, flags) IN
            /\ tool_execs' = tool_execs + 1
            /\ flags' = res.flags
            /\ IF res.type = "proposal"
               THEN /\ IF r.clean_empty
                       THEN UNCHANGED <<chat_messages, chat_seq>>
                       ELSE /\ chat_messages' = Database_insert_chat_message(
                                    chat_messages, chat_seq, "assistant", invocations)
                            /\ chat_seq' = chat_seq + 1
                    /\ emitted' = emitted \o <<"status", "tool_call", "proposal">>
                    /\ agent_pc' = "returned"
                    /\ UNCHANGED data_results
               ELSE /\ emitted' = emitted \o
                            <<"status", "tool_call", "tool_result", "status">>
                    /\ data_results' = data_results + 1
                    /\ UNCHANGED <<chat_messages, chat_seq, agent_pc>>
    /\ UNCHANGED <<flag_seq, config, loop_kind, user_msg_id, invocations,
                   approvals, shells_started>>

\* agent.py 199: the loop ran out
ChatAgent_chat_exhausted ==
    /\ agent_pc = "loop"
    /\ loop_kind = "ChatAgent"
    /\ iteration >= MAX_ITERATIONS
    /\ emitted' = Append(emitted, "text_max_tool_calls")
    /\ agent_pc' = "returned"
    /\ UNCHANGED <<storeVars, loop_kind, iteration, llm_calls, tool_execs,
                   data_results, user_msg_id, last_response, invocations,
                   approvals, shells_started>>

(***************************************************************************)
(* The operator's approval steps                                           *)
(***************************************************************************)
\* agent.py 201-210: ChatAgent.execute_proposal
ChatAgent_execute_proposal(action, port, ip) ==
    /\ agent_pc # "loop"
    /\ approvals < MaxApprovals
    /\ approvals' = approvals + 1
    /\ config' = ProposalExecutor_execute(config, action, port, ip)
    /\ chat_messages' = Database_insert_chat_message(chat_messages, chat_seq,
                                                     "system", 0)
    /\ chat_seq' = chat_seq + 1
    /\ UNCHANGED <<flags, flag_seq, agent_pc, loop_kind, iteration, llm_calls,
                   tool_execs, data_results, emitted, user_msg_id, last_response,
                   invocations, shells_started>>

\* chat.py 196-232, 341-362: ChatEngine.execute_command.  _run_command starts
\* the approved command in a shell (subprocess.Popen) unless it is a sudo
\* command or Popen fails; when the command ran, its output is handed to
\* stream_chat for analysis, which is a new invocation of the loop
ChatEngine_execute_command(outcome) ==
    /\ agent_pc # "loop"
    /\ approvals < MaxApprovals
    /\ approvals' = approvals + 1
    /\ IF outcome = "ran"
       THEN /\ shells_started' = shells_started + 1
            /\ BeginInvocation("ChatEngine")
            /\ UNCHANGED <<flags, flag_seq, config>>
       ELSE UNCHANGED <<shells_started, storeVars, agent_pc, loop_kind, iteration,
                        llm_calls, tool_execs, data_results, emitted, user_msg_id,
                        last_response, invocations>>

AgentFrame == UNCHANGED <<batchStoreVars, schedVars, ptyVars, wdVars, svcVars, termVars>>

AgentLoopStep ==
    \/ ChatEngine_stream_chat_begin
    \/ ChatAgent_chat_begin
    \/ \E r \in Responses : ChatEngine_stream_chat_iteration(r)
    \/ ChatEngine_stream_chat_exhausted
    \/ \E r \in Responses : ChatAgent_chat_iteration(r)
    \/ ChatAgent_chat_exhausted

ApprovalStep ==
    \/ \E a \in ProposalActions, p \in Ports, ip \in IPs :
          ChatAgent_execute_proposal(a, p, ip)
    \/ \E o \in {"ran", "not_started"} : ChatEngine_execute_command(o)

NextAgent == (AgentLoopStep \/ ApprovalStep) /\ AgentFrame

SpecAgent == InitAgent /\ [][NextAgent]_vars

(***************************************************************************)
(* Claims about the agent loop, checked under SpecAgent                    *)
(***************************************************************************)
Range(s) == {s[i] : i \in DOMAIN s}

InvocationOver == agent_pc \in {"returned", "raised"}

\* C1: every response that resolves to a proposal tool (propose_command,
\* propose_ignore_port, propose_ignore_ip) makes the loop emit a `proposal`
\* event and return, and no shell process or PTY session is started by the
\* loop or the registry: every shell started is accounted for by an
\* operator approval step.
C1_ProposalEmittedNotExecuted ==
    /\ shells_started <= approvals
    /\ (/\ llm_calls > 0
        /\ last_response.tool \in ProposalTools
        /\ last_response.args_ok)
       => (agent_pc = "returned" /\ "proposal" \in Range(emitted))

\* C2: a step of the agent loop changes no flag and no configuration entry;
\* only chat messages are appended.
C2_LoopChangesOnlyChat ==
    [][AgentLoopStep => (flags' = flags /\ config' = config)]_vars

\* C3: when an invocation is over, on every path, the event sequence it
\* yielded ends with `done`, and `done` occurs nowhere else in it.
C3_DoneIsLast ==
    InvocationOver =>
        /\ Len(emitted) > 0
        /\ Last(emitted) = "done"
        /\ \A i \in 1..(Len(emitted) - 1) : emitted[i] # "done"

\* the text event that explains the cap is the last text event yielded
CapTextIsFinal ==
    /\ "text_max_tool_calls" \in Range(emitted)
    /\ \A i \in DOMAIN emitted :
          emitted[i] = "text_max_tool_calls" =>
              \A j \in (i + 1)..Len(emitted) : emitted[j] = "done"

C4_StateInv ==
    /\ llm_calls <= 5
    /\ (InvocationOver /\ data_results = 5) => CapTextIsFinal

\* the body of the loop, the steps that the running generator takes by itself
LoopBodyStep ==
    /\ \/ \E r \in Responses : ChatEngine_stream_chat_iteration(r)
       \/ ChatEngine_stream_chat_exhausted
       \/ \E r \in Responses : ChatAgent_chat_iteration(r)
       \/ ChatAgent_chat_exhausted
    /\ AgentFrame

\* The agent loop by itself, no approval in between.  _call_llm has a timeout
\* and turns every failure into a reply, so a running invocation always
\* takes its next step
SpecLoopFair ==
    InitAgent /\ [][AgentLoopStep /\ AgentFrame]_vars /\ WF_vars(LoopBodyStep)

\* C4: an invocation makes at most 5 LLM calls; when all 5 responses were
\* data-tool calls the last text event yielded is the one that explains the
\* cap; and every invocation that is running eventually is over, whatever
\* the LLM answers.
C4_AtMostFiveLLMCalls ==
    /\ []C4_StateInv
    /\ (agent_pc = "loop") ~> InvocationOver

C4_Witness == agent_pc = "returned" /\ llm_calls = 5 /\ data_results = 5

UserMessagePersisted ==
    \E i \in DOMAIN chat_messages :
        /\ chat_messages[i].id = user_msg_id
        /\ chat_messages[i].role = "user"
        /\ chat_messages[i].inv = invocations

C5_StateInv ==
    /\ (agent_pc # "idle") => UserMessagePersisted
    /\ (llm_calls > 0 \/ tool_execs > 0) => UserMessagePersisted
    /\ \A i \in DOMAIN chat_messages :
          (chat_messages[i].role = "assistant" /\ chat_messages[i].inv = invocations)
              => chat_messages[i].id > user_msg_id

IsPrefix(s, t) == Len(s) <= Len(t) /\ \A i \in DOMAIN s : s[i] = t[i]

\* C5: the user message is in the chat table before any LLM call or tool
\* execution of the invocation, every assistant message the invocation
\* persists has a larger id than it, and no step (a raised error included)
\* changes or removes a message persisted earlier.
C5_UserMessageFirst ==
    /\ []C5_StateInv
    /\ [][IsPrefix(chat_messages, chat_messages')]_vars

C5_Witness ==
    /\ agent_pc = "raised"
    /\ invocations = 2
    /\ \E i \in DOMAIN chat_messages :
          chat_messages[i].role = "assistant" /\ chat_messages[i].inv = 1

\* an iteration whose response names a tool the loop does not know, or
\* carries arguments the tool rejects
ToolErrorStep ==
    /\ llm_calls' = llm_calls + 1
    /\ last_response'.tool # "none"
    /\ \/ last_response'.tool \notin
             (IF loop_kind = "ChatEngine" THEN EngineTools ELSE RegistryTools)
       \/ ~last_response'.args_ok

\* C23: when the response names an unknown tool or supplies invalid
\* arguments, the loop yields a tool_result event carrying the error and goes
\* on with the next iteration; no invocation ends by an exception.
C23_ToolErrorReportedLoopContinues ==
    /\ [][ToolErrorStep =>
            /\ \E i \in (Len(emitted) + 1)..Len(emitted') :
                  emitted'[i] = "tool_result"
            /\ agent_pc' = "loop"]_vars
    /\ [](agent_pc # "raised")

(***************************************************************************)
(* The batch tables of the store: database.py                              *)
(***************************************************************************)
SetMax(S) == CHOOSE x \in S : \A y \in S : y <= x

\* INSERT INTO events: timestamp is the wall clock at insert
Database_insert_event(evs, seq, raw, batch, ts) ==
    evs \cup {[id |-> seq + 1, batch_id |-> batch, ts |-> ts, raw |-> raw]}

\* INSERT INTO decisions
Database_insert_decision(ds, seq, batch, count, verdict, ts) ==
    ds \cup {[id |-> seq + 1, batch_id |-> batch, event_count |-> count,
              verdict |-> verdict, ts |-> ts]}

\* a seed that would ignore the stored decisions
Database_get_latest_decision_id_zero(ds) == 0

\* SELECT MAX(id) FROM decisions; 0 when the table is empty
Database_get_latest_decision_id(ds) ==
    IF ds = {} THEN 0 ELSE SetMax({d.id : d \in ds})

\* DELETE FROM events / DELETE FROM decisions
Database_purge_all_events(evs) == {}
Database_purge_all_decisions(ds) == {}

\* DELETE ... WHERE timestamp < cutoff, on events and on decisions
Database_cleanup_old_records(rows, cutoff) == {r \in rows : ~(r.ts < cutoff)}

(***************************************************************************)
(* The reasoning client: logic.py.  The reply of the LLM endpoint is       *)
(* "fail" (network error, bad status, no JSON) or a parsed verdict.        *)
(***************************************************************************)
\* logic.py 68-79, 87-88: the ways the call fails: requests.post raises
\* (network error, timeout), raise_for_status raises, json.loads raises, or
\* the content has no brace pair
LLMFailures == {"network_error", "timeout", "bad_status", "bad_json", "no_braces"}

\* the parsed verdicts: severity omitted, or a value outside the three
LLMVerdicts ==
    {"allow", "flag_warning", "flag_critical", "flag_no_severity",
     "flag_other_severity"}

LLMReplies == LLMFailures \cup LLMVerdicts

\* a summary is its text and the number the text carries (0 if none)
Summary(text, n) == [text |-> text, n |-> n]

\* the fallback with flagged = False
Fallback_allow(n) ==
    [flagged |-> FALSE, severity |-> "warning",
     summary |-> Summary("Analysis inconclusive for N event(s)", n)]

\* logic.py 90-95
Fallback(n) ==
    [flagged |-> TRUE, severity |-> "warning",
     summary |-> Summary("Analysis inconclusive for N event(s)", n)]

\* logic.py 80-85: the fields of the parsed object, with the defaults of
\* result.get for the absent ones
ParsedVerdict(reply) ==
    CASE reply = "allow" ->
            [flagged |-> FALSE, severity |-> "info", summary |-> Summary("llm", 0)]
      [] reply = "flag_warning" ->
            [flagged |-> TRUE, severity |-> "warning", summary |-> Summary("llm", 0)]
      [] reply = "flag_critical" ->
            [flagged |-> TRUE, severity |-> "critical", summary |-> Summary("llm", 0)]
      [] reply = "flag_no_severity" ->
            [flagged |-> TRUE, severity |-> "info", summary |-> Summary("llm", 0)]
      [] reply = "flag_other_severity" ->
            [flagged |-> TRUE, severity |-> "high", summary |-> Summary("llm", 0)]

\* logic.py 40-95
ReasoningEngine_analyze_batch(buffer, reply) ==
    IF Len(buffer) = 0
       THEN [flagged |-> FALSE, severity |-> "info",
             summary |-> Summary("No events to analyze", 0)]
    ELSE IF reply \in LLMFailures THEN Fallback(Len(buffer))
    ELSE ParsedVerdict(reply)

(***************************************************************************)
(* The daemon: main.py                                                     *)
(***************************************************************************)
EventStrings == {"SSH_AUTH_FAIL", "NET_CONN"}
NoEvent == "none"

\* everything but the log tailer and the monitored file
InitCore ==
    /\ chat_messages = <<>>
    /\ chat_seq = 0
    /\ flags = <<>>
    /\ flag_seq = 0
    /\ config = DefaultConfig
    /\ InitBatchStore
    /\ InitAgentLoop
    /\ InitSchedDown
    /\ InitPty

Init == InitCore /\ InitWatchdog

SchedFrame ==
    UNCHANGED <<chat_messages, chat_seq, config, agentVars, ptyVars, wdVars, svcVars, termVars>>

\* main.py 92-143: start-up; the interval is read from the config store and
\* the batch id is seeded from the latest decision id
main_start ==
    /\ sched_pc = "down"
    /\ restarts < MaxRestarts
    /\ restarts' = restarts + 1
    /\ analysis_interval' = config.batch_interval
    /\ event_buffer' = <<>>
    /\ event_ids_for_batch' = <<>>
    /\ buffer_start_time' = None
    /\ batch_id' = Database_get_latest_decision_id(decisions) + 1
    /\ sched_pc' = "read"
    /\ UNCHANGED <<fired_batch_ids, flags, flag_seq, batchStoreVars, result, now, purges, purge_pc>>
    /\ SchedFrame

\* a list that would take its new element at the front
list_append_front(lst, x) == <<x>> \o lst

\* main.py 149, 160: event_buffer.append(event), event_ids_for_batch.append(event_id)
list_append(lst, x) == Append(lst, x)

\* main.py 146-163: read_stream and, for an event, its insert.  The event's
\* timestamp is the clock read inside insert_event (database.py 138); the
\* window start is a later clock read (main.py 163): `late` ticks pass
\* between the two
main_read_stream(event, late) ==
    /\ sched_pc = "read"
    /\ now + late <= MaxTime
    /\ IF event # NoEvent
       THEN /\ event_seq < MaxEvents
            /\ late > 0 => buffer_start_time = None
            /\ event_buffer' = list_append(event_buffer, event)
            /\ events' = Database_insert_event(events, event_seq, event, batch_id, now)
            /\ event_seq' = event_seq + 1
            /\ event_ids_for_batch' = list_append(event_ids_for_batch, event_seq + 1)
            /\ buffer_start_time' =
                  IF buffer_start_time = None THEN now + late ELSE buffer_start_time
            /\ now' = now + late
       ELSE /\ late = 0
            /\ UNCHANGED <<event_buffer, events, event_seq, event_ids_for_batch,
                           buffer_start_time, now>>
    /\ sched_pc' = "check"
    /\ UNCHANGED <<fired_batch_ids, flags, flag_seq, decisions, decision_seq, batch_id,
                   analysis_interval, result, restarts, purges, purge_pc>>
    /\ SchedFrame

WindowDue ==
    /\ buffer_start_time # None
    /\ now - buffer_start_time >= analysis_interval

\* main.py 165-167: the window is not open or has not expired
main_window_not_due ==
    /\ sched_pc = "check"
    /\ ~WindowDue
    /\ sched_pc' = "read"
    /\ UNCHANGED <<fired_batch_ids, flags, flag_seq, batchStoreVars, event_buffer, event_ids_for_batch,
                   buffer_start_time, batch_id, analysis_interval, result, now,
                   restarts, purges, purge_pc>>
    /\ SchedFrame

\* an end of a firing that would leave the window start as it was
ClearWindow_keeps_start ==
    /\ event_buffer' = <<>>
    /\ event_ids_for_batch' = <<>>
    /\ UNCHANGED buffer_start_time
    /\ batch_id' = batch_id + 1

\* main.py 203-206: the end of a firing
ClearWindow ==
    /\ event_buffer' = <<>>
    /\ event_ids_for_batch' = <<>>
    /\ buffer_start_time' = None
    /\ batch_id' = batch_id + 1

\* main.py 165-184: the window expired: analyze_batch, then insert_decision
main_fire_batch(reply) ==
    /\ sched_pc = "check"
    /\ WindowDue
    /\ LET v == ReasoningEngine_analyze_batch(event_buffer, reply) IN
        /\ result' = v
        /\ decisions' = Database_insert_decision(decisions, decision_seq, batch_id,
                            Len(event_buffer), IF v.flagged THEN "FLAG" ELSE "ALLOW",
                            now)
        /\ decision_seq' = decision_seq + 1
        /\ IF v.flagged
           THEN /\ sched_pc' = "flag"
                /\ UNCHANGED <<event_buffer, event_ids_for_batch, buffer_start_time,
                               batch_id>>
           ELSE /\ sched_pc' = "read"
                /\ ClearWindow
    /\ fired_batch_ids' = fired_batch_ids \cup {batch_id}
    /\ UNCHANGED <<flags, flag_seq, events, event_seq, analysis_interval, now,
                   restarts, purges, purge_pc>>
    /\ SchedFrame

\* main.py 186-206: insert_flag for a flagged verdict, then the clearing
main_persist_flag ==
    /\ sched_pc = "flag"
    /\ flags' = Database_insert_flag(flags, flag_seq, event_ids_for_batch,
                                     result.severity, batch_id)
    /\ flag_seq' = flag_seq + 1
    /\ ClearWindow
    /\ sched_pc' = "read"
    /\ UNCHANGED <<fired_batch_ids, batchStoreVars, analysis_interval, result, now, restarts, purges,
                   purge_pc>>
    /\ SchedFrame

\* the process dies (signal, or an exception leaving the loop): what it
\* held in memory is lost
daemon_crash ==
    /\ sched_pc # "down"
    /\ restarts < MaxRestarts
    /\ sched_pc' = "down"
    /\ event_buffer' = <<>>
    /\ event_ids_for_batch' = <<>>
    /\ buffer_start_time' = None
    /\ batch_id' = 0
    /\ analysis_interval' = 0
    /\ result' = NoVerdict
    /\ UNCHANGED <<fired_batch_ids, flags, flag_seq, batchStoreVars, now, restarts, purges, purge_pc>>
    /\ SchedFrame

\* main.py 145-206 has no try/except: an exception raised by insert_event
\* (153), analyze_batch (170: its config reads are outside its own try),
\* insert_decision (177) or insert_flag (187) leaves `while True` and main();
\* _cursor (database.py 53-64) rolls the failed statement back and re-raises
IterationOps == {"insert_event", "analyze_batch", "insert_decision", "insert_flag"}

main_iteration_raises(op) ==
    /\ CASE op = "insert_event" -> sched_pc = "read" /\ event_seq < MaxEvents
         [] op = "insert_flag" -> sched_pc = "flag"
         [] OTHER -> sched_pc = "check" /\ WindowDue
    /\ sched_pc' = "down"
    /\ event_buffer' = <<>>
    /\ event_ids_for_batch' = <<>>
    /\ buffer_start_time' = None
    /\ batch_id' = 0
    /\ analysis_interval' = 0
    /\ result' = NoVerdict
    /\ UNCHANGED <<fired_batch_ids, flags, flag_seq, batchStoreVars, now, restarts,
                   purges, purge_pc>>
    /\ SchedFrame

BatchIntervals == {1, 2}

\* database.py 204-209: set_config("batch_interval", v) by an operator
Database_set_config_batch_interval(v) ==
    /\ config.batch_interval # v
    /\ config' = [config EXCEPT !.batch_interval = v]
    /\ UNCHANGED <<chat_messages, chat_seq, flags, flag_seq, batchStoreVars,
                   agentVars, schedVars, ptyVars, wdVars, svcVars, termVars>>

\* the wall clock advances
Tick ==
    /\ now < MaxTime
    /\ now' = now + 1
    /\ UNCHANGED <<fired_batch_ids, flags, flag_seq, batchStoreVars, sched_pc, event_buffer,
                   event_ids_for_batch, buffer_start_time, batch_id,
                   analysis_interval, result, restarts, purges, purge_pc>>
    /\ SchedFrame

\* api.py 87-97: DELETE /api/events/purge, first the events ...
purge_events_events ==
    /\ purge_pc = "idle"
    /\ purges < MaxPurges
    /\ purges' = purges + 1
    /\ events' = Database_purge_all_events(events)
    /\ purge_pc' = "events_purged"
    /\ UNCHANGED <<fired_batch_ids, flags, flag_seq, event_seq, decisions, decision_seq, sched_pc,
                   event_buffer, event_ids_for_batch, buffer_start_time, batch_id,
                   analysis_interval, result, now, restarts>>
    /\ SchedFrame

\* ... then the decisions
purge_events_decisions ==
    /\ purge_pc = "events_purged"
    /\ decisions' = Database_purge_all_decisions(decisions)
    /\ purge_pc' = "idle"
    /\ UNCHANGED <<fired_batch_ids, flags, flag_seq, events, event_seq, decision_seq, sched_pc,
                   event_buffer, event_ids_for_batch, buffer_start_time, batch_id,
                   analysis_interval, result, now, restarts, purges>>
    /\ SchedFrame

\* database.py 242-246: cleanup_old_records, one transaction
cleanup_old_records(cutoff) ==
    /\ purge_pc = "idle"
    /\ purges < MaxPurges
    /\ purges' = purges + 1
    /\ events' = Database_cleanup_old_records(events, cutoff)
    /\ decisions' = Database_cleanup_old_records(decisions, cutoff)
    /\ UNCHANGED <<fired_batch_ids, flags, flag_seq, event_seq, decision_seq, sched_pc,
                   event_buffer, event_ids_for_batch, buffer_start_time, batch_id,
                   analysis_interval, result, now, restarts, purge_pc>>
    /\ SchedFrame

NextSched ==
    \/ main_start
    \/ \E e \in EventStrings \cup {NoEvent}, late \in {0, 1} : main_read_stream(e, late)
    \/ main_window_not_due
    \/ \E reply \in LLMReplies : main_fire_batch(reply)
    \/ main_persist_flag
    \/ daemon_crash
    \/ \E op \in IterationOps : main_iteration_raises(op)
    \/ \E v \in BatchIntervals : Database_set_config_batch_interval(v)
    \/ Tick
    \/ purge_events_events
    \/ purge_events_decisions
    \/ \E cutoff \in 0..MaxTime : cutoff <= now /\ cleanup_old_records(cutoff)

SpecSched == Init /\ [][NextSched]_vars

(***************************************************************************)
(* Claims about the scheduler and the store, checked under SpecSched       *)
(***************************************************************************)
MaxDecisionBatchId ==
    IF decisions = {} THEN 0 ELSE SetMax({d.batch_id : d \in decisions})

\* C6: every persisted event has a batch id of at least 1 and at most the
\* maximum batch id among the persisted decisions (0 if none) plus 1.
C6_EventBatchIdBounded ==
    \A e \in events :
        e.batch_id >= 1 /\ e.batch_id <= MaxDecisionBatchId + 1

FlagsOfBatch(b) == {i \in DOMAIN flags : flags[i].batch_id = b}

\* C7: for every persisted decision, exactly one flag of its batch exists if
\* its verdict is FLAG, and none if its verdict is ALLOW.
C7_OneFlagPerFlaggedDecision ==
    \A d \in decisions :
        Cardinality(FlagsOfBatch(d.batch_id)) = IF d.verdict = "FLAG" THEN 1 ELSE 0

\* a step in which the scheduler fires the open window
Fires == decision_seq' = decision_seq + 1

\* C12: when a window fires, every event persisted for its batch has a
\* timestamp between the recorded window start and the moment of firing,
\* and the window was open for at least the interval.
C12_EventsInsideWindow ==
    [][Fires =>
         /\ \A e \in events :
               e.batch_id = batch_id =>
                   (buffer_start_time <= e.ts /\ e.ts <= now)
         /\ now - buffer_start_time >= analysis_interval]_vars

\* the expiry check leaves the "check" position, by firing or by going back
\* to reading
ExpiryCheck == sched_pc = "check" /\ sched_pc' \in {"read", "flag"}

\* C13: every window-expiry check of the running scheduler uses the value
\* of batch_interval that the config store holds at that moment: the window
\* fires exactly when it has been open for at least that long.
C13_IntervalReadOnEveryIteration ==
    [][ExpiryCheck =>
         (Fires <=> (/\ buffer_start_time # None
                     /\ now - buffer_start_time >= config.batch_interval))]_vars

\* C15: the batch id of every window fired is greater than the batch id of
\* every window fired before it, across restarts and purges; and at
\* start-up the batch id is the maximum persisted decision batch_id plus 1.
C15_BatchIdsStrictlyIncrease ==
    /\ [][Fires => \A b \in fired_batch_ids : batch_id > b]_vars
    /\ [][(sched_pc = "down" /\ sched_pc' = "read") =>
             batch_id' = MaxDecisionBatchId + 1]_vars

\* C16: a scheduler iteration in which a store operation or the reasoning
\* call raises does not end the loop: the scheduler is still running after
\* it.
C16_ErrorsDoNotEndTheLoop ==
    [][(\E op \in IterationOps : main_iteration_raises(op)) => sched_pc' # "down"]_vars

\* the daemon alone: no dashboard request reaches the store
NextDaemon ==
    \/ main_start
    \/ \E e \in EventStrings \cup {NoEvent}, late \in {0, 1} : main_read_stream(e, late)
    \/ main_window_not_due
    \/ \E reply \in LLMReplies : main_fire_batch(reply)
    \/ main_persist_flag
    \/ daemon_crash
    \/ \E op \in IterationOps : main_iteration_raises(op)
    \/ Tick

SpecDaemon == Init /\ [][NextDaemon]_vars

\* the daemon with the dashboard's purge and the retention cleanup
NextStore ==
    \/ main_start
    \/ \E e \in {"SSH_AUTH_FAIL", NoEvent}, late \in {0, 1} : main_read_stream(e, late)
    \/ main_window_not_due
    \/ \E reply \in LLMReplies : main_fire_batch(reply)
    \/ main_persist_flag
    \/ daemon_crash
    \/ Tick
    \/ purge_events_events
    \/ purge_events_decisions
    \/ \E cutoff \in 0..MaxTime : cutoff <= now /\ cleanup_old_records(cutoff)

SpecStore == Init /\ [][NextStore]_vars

\* C34: no two decisions present in the store have the same batch_id,
\* across any sequence of batch firings, daemon restarts, purges and
\* cleanups.
C34_DecisionBatchIdsUnique ==
    \A d1, d2 \in decisions : d1.batch_id = d2.batch_id => d1 = d2

\* after a purge and a restart a batch id is used again, by a decision
\* whose row id is larger
C34_Witness ==
    /\ purges >= 1
    /\ restarts >= 2
    /\ \E d \in decisions : d.batch_id = 1 /\ d.id = 2

\* a step in which the window fires on a failed LLM call
FailedFire == \E reply \in LLMFailures : main_fire_batch(reply)

\* C21: for a non-empty batch, whenever the LLM call fails, analyze_batch
\* returns the fallback verdict (flagged, severity warning, summary
\* 'Analysis inconclusive for N event(s)' with N the batch size); the
\* scheduler persists a FLAG decision for the batch, then one pending flag of
\* that severity, and goes on to the next batch.
C21_FailureYieldsFallbackFlag ==
    /\ [][(FailedFire /\ event_buffer # <<>>) =>
            /\ result' = [flagged |-> TRUE, severity |-> "warning",
                          summary |-> [text |-> "Analysis inconclusive for N event(s)",
                                       n |-> Len(event_buffer)]]
            /\ \E d \in decisions' \ decisions :
                  /\ d.batch_id = batch_id
                  /\ d.verdict = "FLAG"
                  /\ d.event_count = Len(event_buffer)
            /\ sched_pc' = "flag"]_vars
    /\ [](sched_pc = "flag" => result.flagged)
    /\ [][(sched_pc = "flag" /\ sched_pc' = "read") =>
            /\ Len(flags') = Len(flags) + 1
            /\ Last(flags').severity = result.severity
            /\ Last(flags').status = "pending"
            /\ Last(flags').event_ids = event_ids_for_batch
            /\ event_buffer' = <<>>
            /\ batch_id' = batch_id + 1]_vars

C21_Witness ==
    /\ sched_pc = "read"
    /\ result.summary.text = "Analysis inconclusive for N event(s)"
    /\ result.summary.n = 1
    /\ flags # <<>>
    /\ Last(flags).severity = "warning"
    /\ Last(flags).batch_id + 1 = batch_id
    /\ \E d \in decisions : d.verdict = "FLAG" /\ d.batch_id = Last(flags).batch_id

\* C22: every flag the scheduler persisted has a severity among info,
\* warning and critical, whatever the content of the LLM response.
C22_FlagSeverityDomain ==
    \A i \in 1..Len(flags) : flags[i].severity \in Severities

(***************************************************************************)
(* The scheduler loop with nothing from outside: no signal ends the        *)
(* process, no dashboard request reaches the store, and no further event   *)
(* fails to be persisted.                                                  *)
(***************************************************************************)
NextLoop ==
    \/ main_start
    \/ \E e \in EventStrings \cup {NoEvent}, late \in {0, 1} : main_read_stream(e, late)
    \/ main_window_not_due
    \/ \E reply \in LLMReplies : main_fire_batch(reply)
    \/ main_persist_flag
    \/ \E op \in IterationOps \ {"insert_event"} : main_iteration_raises(op)
    \/ Tick

SpecLoop == Init /\ [][NextLoop]_vars

\* the open window is still the same window after the step
WindowKept ==
    /\ buffer_start_time' = buffer_start_time
    /\ batch_id' = batch_id
    /\ Len(event_buffer') >= Len(event_buffer)

\* the step ends the window as a firing does
WindowFired ==
    /\ \E d \in decisions' : d.batch_id = batch_id
    /\ event_buffer' = <<>>
    /\ buffer_start_time' = None
    /\ batch_id' = batch_id + 1

\* C31: a window opened by a first event is fired: it stays open, with its
\* batch id, until a step in which a decision with that batch id is
\* persisted, the buffer is cleared, the window start is reset and batch_id
\* is incremented by exactly 1; nothing else ends it.
C31_OpenWindowEndsByFiring ==
    [][buffer_start_time # None =>
          \/ WindowKept
          \/ WindowFired
          \/ sched_pc' = "flag" /\ \E d \in decisions' : d.batch_id = batch_id]_vars

C32_WindowOpenIffBuffered ==
    /\ (buffer_start_time # None) <=> (event_buffer # <<>>)
    /\ Len(event_buffer) = Len(event_ids_for_batch)
    /\ \A d \in decisions : d.event_count >= 1

\* C32: in every state of the scheduler loop the window is open exactly
\* when the event buffer is non-empty, and the buffer and the list of event
\* ids have the same length; the reasoning client is never called with an
\* empty batch and every persisted decision has event_count >= 1.
C32_NoEmptyBatch ==
    /\ []C32_WindowOpenIffBuffered
    /\ [][(\E reply \in LLMReplies : main_fire_batch(reply)) =>
             event_buffer # <<>>]_vars

\* a batch has been fired and a window is open again
C32_Witness ==
    /\ \E d \in decisions : d.event_count = 1
    /\ sched_pc = "check"
    /\ buffer_start_time # None
    /\ Len(event_buffer) = 1

\* C33: the list passed to analyze_batch for a batch holds exactly the
\* events returned by read_stream during that window, in the order they
\* were returned: its i-th element is the event persisted under the i-th id
\* of the batch, these ids increase, and every event persisted since the
\* window opened is among them.
C33_BatchIsWindowInOrder ==
    [][(\E reply \in LLMReplies : main_fire_batch(reply)) =>
         LET n == Len(event_buffer)
             ids == event_ids_for_batch
         IN /\ Len(ids) = n
            /\ \A i \in 1..n : \E e \in events :
                   e.id = ids[i] /\ e.raw = event_buffer[i] /\ e.batch_id = batch_id
            /\ \A i \in 1..(n - 1) : ids[i] < ids[i + 1]
            /\ {e.id : e \in {r \in events : r.id >= ids[1]}} = {ids[i] : i \in 1..n}
            /\ \E d \in decisions' \ decisions : d.event_count = n]_vars

\* a window of two different events has been fired
C33_Witness ==
    \E d \in decisions, e1, e2 \in events :
        /\ d.event_count = 2
        /\ e1.batch_id = d.batch_id /\ e2.batch_id = d.batch_id
        /\ e1.id < e2.id
        /\ e1.raw = "NET_CONN" /\ e2.raw = "SSH_AUTH_FAIL"

(***************************************************************************)
(* The flag lifecycle: insert_flag as the scheduler calls it, the          *)
(* dashboard's endpoints (api.py) and the resolve_flag tool (tools.py)     *)
(***************************************************************************)
FlagsFrame ==
    UNCHANGED <<chat_messages, chat_seq, config, batchStoreVars, agentVars,
                schedVars, ptyVars, wdVars, svcVars, termVars>>

FlagIdInputs == 1..(MaxFlags + 1)

\* main.py 186-192: a flagged batch is persisted as a flag
main_insert_flag(severity) ==
    /\ flag_seq < MaxFlags
    /\ flags' = Database_insert_flag(flags, flag_seq, <<flag_seq + 1>>, severity,
                                     flag_seq + 1)
    /\ flag_seq' = flag_seq + 1
    /\ FlagsFrame

\* POST /api/flags/{id}/resolve without validation of the status
api_resolve_flag_unchecked(fl, flag_id, status) ==
    Database_update_flag_status(fl, flag_id, status)

\* api.py 538-550: POST /api/flags/{id}/resolve: 400 unless the status is
\* resolved or dismissed, else update_flag_status
api_resolve_flag(fl, flag_id, status) ==
    IF status \notin {"resolved", "dismissed"}
    THEN fl
    ELSE Database_update_flag_status(fl, flag_id, status)

\* api.py 552-560: POST /api/flags/{id}/dismiss
api_dismiss_flag(fl, flag_id) ==
    Database_update_flag_status(fl, flag_id, "dismissed")

resolve_flag_endpoint(flag_id, status) ==
    /\ flags' = api_resolve_flag(flags, flag_id, status)
    /\ UNCHANGED flag_seq
    /\ FlagsFrame

dismiss_flag_endpoint(flag_id) ==
    /\ flags' = api_dismiss_flag(flags, flag_id)
    /\ UNCHANGED flag_seq
    /\ FlagsFrame

\* tools.py 100-115: the resolve_flag tool, through execute_tool
resolve_flag_tool(flag_id, status) ==
    /\ flags' = ToolRegistry_execute_tool(
                    Response("resolve_flag", TRUE, flag_id, status, FALSE), flags).flags
    /\ UNCHANGED flag_seq
    /\ FlagsFrame

NextFlags ==
    \/ \E sev \in {"warning", "critical"} : main_insert_flag(sev)
    \/ \E f \in FlagIdInputs, st \in StatusInputs : resolve_flag_endpoint(f, st)
    \/ \E f \in FlagIdInputs : dismiss_flag_endpoint(f)
    \/ \E f \in FlagIdInputs, st \in StatusInputs : resolve_flag_tool(f, st)

SpecFlags == Init /\ [][NextFlags]_vars

\* C8: a flag whose status is resolved or dismissed keeps that status in
\* every later step: resolve and dismiss requests on it change nothing.
C8_TerminalStatusIsFinal ==
    [][\A i \in DOMAIN flags :
          flags[i].status \in TerminalStatuses
              => flags'[i].status = flags[i].status]_vars

C9_StatusInSet ==
    \A i \in DOMAIN flags : flags[i].status \in {"pending", "resolved", "dismissed"}

\* C9: every flag is created with status pending, and in every reachable
\* state every flag's status is one of pending, resolved, dismissed.
C9_FlagStatusDomain ==
    /\ []C9_StatusInSet
    /\ [][Len(flags') > Len(flags) =>
            /\ Len(flags') = Len(flags) + 1
            /\ flags'[Len(flags')].status = "pending"]_vars

C9_Witness ==
    /\ Len(flags) = 3
    /\ {flags[i].status : i \in DOMAIN flags} = {"pending", "resolved", "dismissed"}

\* C30: update_flag_status(id, s) applied twice leaves the flags as applied
\* once, and for an id no flag has it leaves every flag as it was.
C30_UpdateIdempotentAbsentNoop ==
    \A f \in FlagIdInputs, st \in StatusInputs :
        LET once == Database_update_flag_status(flags, f, st) IN
          /\ Database_update_flag_status(once, f, st) = once
          /\ (\A i \in DOMAIN flags : flags[i].id # f) => once = flags

\* a store where an update has acted (only an update sets a status other
\* than pending), where a further update would change a flag, and where
\* some id of the inputs is absent
C30_Witness ==
    /\ \E i \in DOMAIN flags : flags[i].status = "resolved"
    /\ \E i \in DOMAIN flags : flags[i].status = "pending"
    /\ \E f \in FlagIdInputs : \A i \in DOMAIN flags : flags[i].id # f

(***************************************************************************)
(* The PTY session: pty_manager.py, and the child process under it         *)
(***************************************************************************)
PtyFrame ==
    UNCHANGED <<storeVars, batchStoreVars, agentVars, schedVars, wdVars, svcVars, termVars>>

Signals == {SIGINT, SIGTERM}
ExitCodes == {0, 1}

\* the lowest descriptor number not in use
AllocFd(open) ==
    CHOOSE f \in 0..Cardinality(open) :
        f \notin open /\ \A g \in 0..(f - 1) : g \in open

\* pty_manager.py 143-174: close().  Nothing happens on a closed session;
\* otherwise the session is marked closed and the descriptor is closed.
SessionAfterClose(sess) ==
    IF sess.closed THEN sess
    ELSE [sess EXCEPT !.closed = TRUE, !.master_fd = -1]

FdsAfterClose(sess, fds) ==
    IF sess.closed \/ sess.master_fd < 0 THEN fds ELSE fds \ {sess.master_fd}

\* SIGTERM, ten waitpid polls, then SIGKILL and a blocking waitpid: the
\* child is gone and reaped whatever it was doing
ChildAfterClose(sess, child) ==
    IF sess.closed \/ sess.pid <= 0 \/ child.status \in {"none", "reaped"}
    THEN child
    ELSE [child EXCEPT !.status = "reaped"]

\* the ways start() can go: the child runs the command; openpty raises;
\* fork raises; or fork succeeds and the exec of the command fails in the child
StartOutcomes == {"ok", "openpty_fails", "fork_fails", "exec_fails"}

\* what start() returns in the service process: the parent branch returns
\* True once fork has returned a pid (pty_manager.py 64-68), whatever the
\* child does afterwards
StartReturns(outcome) == outcome \in {"ok", "exec_fails"}

\* pty_manager.py 29-73: start(), as the session object it leaves behind
SessionAfterStart(outcome, sid, fds, t) ==
    LET master == AllocFd(fds)
        fresh == [NoSession EXCEPT !.state = "live", !.last_activity = t]
    IN CASE StartReturns(outcome) ->
              [fresh EXCEPT !.master_fd = master, !.pid = sid]
         [] outcome = "openpty_fails" -> SessionAfterClose(fresh)
         [] OTHER -> SessionAfterClose([fresh EXCEPT !.master_fd = master])

\* the child exists once fork has succeeded; when its exec fails it is a copy
\* of the service that goes on running (pty_manager.py 40-62, 70-73)
ChildAfterStart(outcome) ==
    IF StartReturns(outcome) THEN [NoChild EXCEPT !.status = "running"]
    ELSE NoChild

\* fork fails: the master is closed by _cleanup, the slave is not
FdsAfterStart(outcome, fds) ==
    LET master == AllocFd(fds)
        slave == AllocFd(fds \cup {master})
    IN CASE StartReturns(outcome) -> fds \cup {master}
         [] outcome = "openpty_fails" -> fds
         [] OTHER -> fds \cup {slave}

\* pty_manager.py 29-73: start()
PTYSession_start(sid, outcome) ==
    /\ pty_sessions[sid].state = "absent"
    /\ pty_sessions' = [pty_sessions EXCEPT ![sid] =
                            SessionAfterStart(outcome, sid, open_fds, now)]
    /\ pty_child' = [pty_child EXCEPT ![sid] = ChildAfterStart(outcome)]
    /\ open_fds' = FdsAfterStart(outcome, open_fds)
    /\ PtyFrame

Live(sid) == pty_sessions[sid].state = "live"

\* pty_manager.py 75-90: read_output()
PTYSession_read_output(sid, data) ==
    /\ Live(sid)
    /\ LET sess == pty_sessions[sid] IN
         IF sess.closed \/ sess.master_fd < 0 \/ ~data
         THEN UNCHANGED pty_sessions
         ELSE pty_sessions' = [pty_sessions EXCEPT ![sid].last_activity = now]
    /\ UNCHANGED <<pty_child, open_fds>>
    /\ PtyFrame

\* pty_manager.py 92-103: write_input(); os.write may fail
PTYSession_write_input(sid, written) ==
    /\ Live(sid)
    /\ LET sess == pty_sessions[sid] IN
         IF sess.closed \/ sess.master_fd < 0 \/ ~written
         THEN UNCHANGED pty_sessions
         ELSE pty_sessions' = [pty_sessions EXCEPT ![sid].last_activity = now]
    /\ UNCHANGED <<pty_child, open_fds>>
    /\ PtyFrame

\* pty_manager.py 105-111: send_signal(); the signal reaches a running child
PTYSession_send_signal(sid, sig) ==
    /\ Live(sid)
    /\ IF pty_sessions[sid].pid > 0 /\ pty_child[sid].status = "running"
       THEN pty_child' = [pty_child EXCEPT ![sid].signals = @ \cup {sig}]
       ELSE UNCHANGED pty_child
    /\ UNCHANGED <<pty_sessions, open_fds>>
    /\ PtyFrame

\* os.WIFEXITED -> os.WEXITSTATUS, os.WIFSIGNALED -> -os.WTERMSIG
ExitCodeOf(wstatus) ==
    IF wstatus.kind = "exited" THEN wstatus.val ELSE 0 - wstatus.val

\* an is_running that would record the exit code and leave the session open
SessionAfterIsRunning_stays_open(sess, child) ==
    IF sess.pid <= 0 \/ sess.closed \/ child.status # "zombie" THEN sess
    ELSE [sess EXCEPT !.exit_code = ExitCodeOf(child.wstatus)]

\* pty_manager.py 113-131: is_running(), as the session it leaves behind
SessionAfterIsRunning(sess, child) ==
    IF sess.pid <= 0 \/ sess.closed THEN sess
    ELSE CASE child.status = "running" -> sess
           [] child.status = "zombie" ->
                [sess EXCEPT !.exit_code = ExitCodeOf(child.wstatus),
                             !.closed = TRUE]
           [] OTHER -> [sess EXCEPT !.closed = TRUE]

\* waitpid reaps a zombie
ChildAfterIsRunning(sess, child) ==
    IF sess.pid <= 0 \/ sess.closed \/ child.status # "zombie" THEN child
    ELSE [child EXCEPT !.status = "reaped"]

PTYSession_is_running(sid) ==
    /\ Live(sid)
    /\ pty_sessions' = [pty_sessions EXCEPT ![sid] =
                            SessionAfterIsRunning(pty_sessions[sid], pty_child[sid])]
    /\ pty_child' = [pty_child EXCEPT ![sid] =
                            ChildAfterIsRunning(pty_sessions[sid], pty_child[sid])]
    /\ UNCHANGED open_fds
    /\ PtyFrame

\* pty_manager.py 133-137: get_exit_code() calls is_running() unless closed
PTYSession_get_exit_code(sid) ==
    /\ Live(sid)
    /\ IF pty_sessions[sid].closed
       THEN UNCHANGED <<pty_sessions, pty_child>>
       ELSE /\ pty_sessions' = [pty_sessions EXCEPT ![sid] =
                    SessionAfterIsRunning(pty_sessions[sid], pty_child[sid])]
            /\ pty_child' = [pty_child EXCEPT ![sid] =
                    ChildAfterIsRunning(pty_sessions[sid], pty_child[sid])]
    /\ UNCHANGED open_fds
    /\ PtyFrame

\* pty_manager.py 143-174: close()
PTYSession_close(sid) ==
    /\ Live(sid)
    /\ pty_sessions' = [pty_sessions EXCEPT ![sid] =
                            SessionAfterClose(pty_sessions[sid])]
    /\ pty_child' = [pty_child EXCEPT ![sid] =
                            ChildAfterClose(pty_sessions[sid], pty_child[sid])]
    /\ open_fds' = FdsAfterClose(pty_sessions[sid], open_fds)
    /\ PtyFrame

\* the child process ends by itself ...
child_exits(sid, code) ==
    /\ pty_child[sid].status = "running"
    /\ pty_child' = [pty_child EXCEPT ![sid].status = "zombie",
                        ![sid].wstatus = [kind |-> "exited", val |-> code]]
    /\ UNCHANGED <<pty_sessions, open_fds>>
    /\ PtyFrame

\* ... or is terminated by a signal it was sent
child_killed(sid, sig) ==
    /\ pty_child[sid].status = "running"
    /\ sig \in pty_child[sid].signals
    /\ pty_child' = [pty_child EXCEPT ![sid].status = "zombie",
                        ![sid].wstatus = [kind |-> "signaled", val |-> sig]]
    /\ UNCHANGED <<pty_sessions, open_fds>>
    /\ PtyFrame

NextPty ==
    \/ \E sid \in SessionIds, o \in {"ok", "openpty_fails", "fork_fails"} :
          PTYSession_start(sid, o)
    \/ \E sid \in SessionIds, data \in BOOLEAN : PTYSession_read_output(sid, data)
    \/ \E sid \in SessionIds, w \in BOOLEAN : PTYSession_write_input(sid, w)
    \/ \E sid \in SessionIds, sig \in Signals : PTYSession_send_signal(sid, sig)
    \/ \E sid \in SessionIds : PTYSession_is_running(sid)
    \/ \E sid \in SessionIds : PTYSession_get_exit_code(sid)
    \/ \E sid \in SessionIds : PTYSession_close(sid)
    \/ \E sid \in SessionIds, code \in ExitCodes : child_exits(sid, code)
    \/ \E sid \in SessionIds, sig \in Signals : child_killed(sid, sig)
    \/ Tick

SpecPty == Init /\ [][NextPty]_vars

\* C10: for every PTY session, in every reachable state: closed implies
\* master_fd = -1.
C10_ClosedImpliesNoDescriptor ==
    \A sid \in SessionIds :
        (Live(sid) /\ pty_sessions[sid].closed) => pty_sessions[sid].master_fd = -1

ExitCodeRecorded(sid) ==
    pty_sessions'[sid].exit_code # pty_sessions[sid].exit_code

\* C11: for every PTY session, in every reachable state, a recorded exit
\* code implies closed; and the exit code is recorded only once, in a step
\* that reaps the exited child, as its exit status or as the negative of the
\* signal that terminated it.
C11_ExitCodeImpliesClosed ==
    /\ [](\A sid \in SessionIds :
            pty_sessions[sid].exit_code # None => pty_sessions[sid].closed)
    /\ [][\A sid \in SessionIds :
            ExitCodeRecorded(sid) =>
                /\ pty_sessions[sid].exit_code = None
                /\ pty_child[sid].status = "zombie"
                /\ pty_child'[sid].status = "reaped"
                /\ \/ /\ pty_child[sid].wstatus.kind = "exited"
                      /\ pty_sessions'[sid].exit_code = pty_child[sid].wstatus.val
                   \/ /\ pty_child[sid].wstatus.kind = "signaled"
                      /\ pty_sessions'[sid].exit_code = 0 - pty_child[sid].wstatus.val]_vars

C11_Witness ==
    \E sid \in SessionIds :
        /\ pty_sessions[sid].closed
        /\ pty_sessions[sid].exit_code = 0 - SIGTERM

(***************************************************************************)
(* The PTY service: pty_service.py over the session table of               *)
(* pty_manager.py.  Each connection makes one request; after create or     *)
(* attach two tasks run on it: read_pty_output, whose position is out_pc,  *)
(* and read_client_input, alive while in_alive.  read_pty_output runs      *)
(* read_output on an executor thread, so the read is two steps: the checks *)
(* up to the load of master_fd, and the os.read on the number loaded.      *)
(* frames is what the client has received.  fd_pty says which session's    *)
(* PTY each open master descriptor names, and how many chunks of output    *)
(* the child has written to it that nobody has read.                       *)
(***************************************************************************)
ServiceFrame ==
    UNCHANGED <<storeVars, batchStoreVars, agentVars, schedVars, wdVars, termVars>>

Frame(event, sid, origin, code) ==
    [event |-> event, session_id |-> sid, origin |-> origin, exit_code |-> code]

\* pty_service.py 241-247: _send(); a failed write is logged and swallowed
PTYService_send(conn, frame) ==
    IF conn.peer_open THEN [conn EXCEPT !.frames = Append(@, frame)] ELSE conn

\* pty_service.py 131-136: the handler returns and the writer is closed
ConnClosed(conn) == [conn EXCEPT !.state = "closed"]

\* pty_service.py 138-239: _stream_session() starts the two tasks
ConnStreaming(conn, sid) ==
    [conn EXCEPT !.state = "streaming", !.sid = sid, !.out_pc = "read",
                 !.idle_count = 0, !.in_alive = TRUE]

\* pty_manager.py 139-141: is_timed_out()
PTYSession_is_timed_out(sess) == now - sess.last_activity > SessionTimeout

\* pty_manager.py 113-131: what is_running() returns
IsRunningReturns(sess, child) ==
    sess.pid > 0 /\ ~sess.closed /\ child.status = "running"

\* the sessions of a set after is_running() has been called on each
SessionsAfterIsRunning(S) ==
    [s \in DOMAIN pty_sessions |->
        IF s \in S THEN SessionAfterIsRunning(pty_sessions[s], pty_child[s])
        ELSE pty_sessions[s]]

ChildrenAfterIsRunning(S) ==
    [s \in DOMAIN pty_child |->
        IF s \in S THEN ChildAfterIsRunning(pty_sessions[s], pty_child[s])
        ELSE pty_child[s]]

\* the descriptors close() closes for the sessions of a set
ClosedFds(S) ==
    {pty_sessions[s].master_fd :
        s \in {t \in S : ~pty_sessions[t].closed /\ pty_sessions[t].master_fd >= 0}}

\* pty_manager.py 143-174: close() on each session of a set
CloseSessions(S) ==
    /\ pty_sessions' = [s \in DOMAIN pty_sessions |->
          IF s \in S THEN SessionAfterClose(pty_sessions[s]) ELSE pty_sessions[s]]
    /\ pty_child' = [s \in DOMAIN pty_child |->
          IF s \in S THEN ChildAfterClose(pty_sessions[s], pty_child[s])
          ELSE pty_child[s]]
    /\ open_fds' = open_fds \ ClosedFds(S)
    /\ fd_pty' = [f \in DOMAIN fd_pty \ ClosedFds(S) |-> fd_pty[f]]

\* a request line with no command, or the way start() goes
CreateOutcomes == StartOutcomes \cup {"no_command"}

\* pty_service.py 74-92 with pty_manager.py 189-207: the create request.
\* The id is a fresh uuid, so the table never holds it already.  When the
\* exec fails it fails in the child, a copy of the service: there start()
\* returns False, create_session returns None, and the copy writes the
\* error frame to the socket it inherited, before or after the parent's
\* "created".
PTYService_handle_create(c, sid, outcome, child_first) ==
    /\ conns[c].state = "free"
    /\ pty_sessions[sid].state = "absent"
    /\ outcome = "exec_fails" \/ ~child_first
    /\ IF outcome = "no_command"
       THEN /\ conns' = [conns EXCEPT ![c] = ConnClosed(PTYService_send(conns[c],
                            Frame("error", 0, 0, None)))]
            /\ UNCHANGED <<ptyVars, pty_table, fd_pty>>
       ELSE /\ pty_sessions' = [pty_sessions EXCEPT ![sid] =
                    SessionAfterStart(outcome, sid, open_fds, now)]
            /\ pty_child' = [pty_child EXCEPT ![sid] = ChildAfterStart(outcome)]
            /\ open_fds' = FdsAfterStart(outcome, open_fds)
            /\ IF StartReturns(outcome)
               THEN LET master == AllocFd(open_fds)
                        created == Frame("created", sid, 0, None)
                        failed == Frame("error", 0, 0, None)
                        told == CASE outcome = "ok" ->
                                       PTYService_send(conns[c], created)
                                  [] child_first ->
                                       PTYService_send(
                                           PTYService_send(conns[c], failed), created)
                                  [] OTHER ->
                                       PTYService_send(
                                           PTYService_send(conns[c], created), failed)
                    IN /\ pty_table' = pty_table \cup {sid}
                       /\ fd_pty' = [f \in DOMAIN fd_pty \cup {master} |->
                             IF f = master THEN [owner |-> sid, unread |-> 0]
                             ELSE fd_pty[f]]
                       /\ conns' = [conns EXCEPT ![c] = ConnStreaming(told, sid)]
               ELSE /\ conns' = [conns EXCEPT ![c] = ConnClosed(
                            PTYService_send(conns[c], Frame("error", 0, 0, None)))]
                    /\ UNCHANGED <<pty_table, fd_pty>>
    /\ UNCHANGED child_writes
    /\ ServiceFrame

\* pty_service.py 94-104 with pty_manager.py 209-211: the attach request
PTYService_handle_attach(c, sid) ==
    /\ conns[c].state = "free"
    /\ conns' = [conns EXCEPT ![c] =
          IF sid \in pty_table
          THEN ConnStreaming(PTYService_send(conns[c],
                                 Frame("attached", sid, 0, None)), sid)
          ELSE ConnClosed(PTYService_send(conns[c], Frame("error", 0, 0, None)))]
    /\ UNCHANGED <<ptyVars, pty_table, fd_pty, child_writes>>
    /\ ServiceFrame

\* pty_service.py 106-117: the list request calls is_running() on every
\* session of the table
PTYService_handle_list(c) ==
    /\ conns[c].state = "free"
    /\ pty_sessions' = SessionsAfterIsRunning(pty_table)
    /\ pty_child' = ChildrenAfterIsRunning(pty_table)
    /\ conns' = [conns EXCEPT ![c] =
          ConnClosed(PTYService_send(conns[c], Frame("ok", 0, 0, None)))]
    /\ UNCHANGED <<open_fds, pty_table, fd_pty, child_writes>>
    /\ ServiceFrame

\* pty_service.py 119-123 with pty_manager.py 213-218: the close request
PTYService_handle_close(c, sid) ==
    /\ conns[c].state = "free"
    /\ CloseSessions({sid} \cap pty_table)
    /\ pty_table' = pty_table \ {sid}
    /\ conns' = [conns EXCEPT ![c] =
          ConnClosed(PTYService_send(conns[c], Frame("closed", sid, 0, None)))]
    /\ UNCHANGED child_writes
    /\ ServiceFrame

\* read_pty_output at the top of its loop
Reading(c) == conns[c].state = "streaming" /\ conns[c].out_pc = "read"

\* pty_service.py 150-152 with pty_manager.py 77-83: the executor thread
\* runs read_output up to the load of master_fd for os.read.  A closed
\* session, or a select that times out, gives None at once.
read_output_begin(c) ==
    /\ Reading(c)
    /\ LET sess == pty_sessions[conns[c].sid]
           silent == \/ sess.closed
                     \/ sess.master_fd < 0
                     \/ fd_pty[sess.master_fd].unread = 0
       IN conns' = [conns EXCEPT ![c] =
             IF silent
             THEN [@ EXCEPT !.idle_count = @ + 1, !.out_pc = "poll"]
             ELSE [@ EXCEPT !.read_fd = sess.master_fd, !.out_pc = "reading"]]
    /\ UNCHANGED <<ptyVars, pty_table, fd_pty, child_writes>>
    /\ ServiceFrame

\* pty_manager.py 83-90 with pty_service.py 154-168: os.read on the number
\* that was loaded, whatever that number names by now; OSError gives None
read_output_end(c) ==
    /\ conns[c].state = "streaming"
    /\ conns[c].out_pc = "reading"
    /\ LET fd == conns[c].read_fd
           sid == conns[c].sid
           done == [conns[c] EXCEPT !.read_fd = -1, !.out_pc = "poll"]
       IN IF fd \in DOMAIN fd_pty /\ fd_pty[fd].unread > 0
          THEN /\ fd_pty' = [fd_pty EXCEPT ![fd].unread = @ - 1]
               /\ pty_sessions' = [pty_sessions EXCEPT ![sid].last_activity = now]
               /\ conns' = [conns EXCEPT ![c] =
                     PTYService_send([done EXCEPT !.idle_count = 0],
                                     Frame("output", sid, fd_pty[fd].owner, None))]
          ELSE /\ conns' = [conns EXCEPT ![c] =
                     [done EXCEPT !.idle_count = @ + 1]]
               /\ UNCHANGED <<pty_sessions, fd_pty>>
    /\ UNCHANGED <<pty_child, open_fds, pty_table, child_writes>>
    /\ ServiceFrame

\* pty_service.py 170-191: is_running(), then the choice between draining,
\* giving up after max_idle silent reads, and the next read
read_pty_output_poll(c) ==
    /\ conns[c].state = "streaming"
    /\ conns[c].out_pc = "poll"
    /\ LET sid == conns[c].sid IN
         /\ pty_sessions' = SessionsAfterIsRunning({sid})
         /\ pty_child' = ChildrenAfterIsRunning({sid})
         /\ conns' = [conns EXCEPT ![c].out_pc =
               IF ~IsRunningReturns(pty_sessions[sid], pty_child[sid]) THEN "drain"
               ELSE IF conns[c].idle_count > max_idle THEN "finish"
               ELSE "read"]
    /\ UNCHANGED <<open_fds, pty_table, fd_pty, child_writes>>
    /\ ServiceFrame

\* how many chunks up to ten reads of read_output give: none from a closed
\* session (pty_manager.py 77-78)
Drained(sess) ==
    IF sess.closed \/ sess.master_fd < 0 \/ sess.master_fd \notin DOMAIN fd_pty
    THEN 0
    ELSE IF fd_pty[sess.master_fd].unread > 10 THEN 10
    ELSE fd_pty[sess.master_fd].unread

RECURSIVE SendOutputs(_, _, _, _)
SendOutputs(conn, sid, origin, n) ==
    IF n = 0 THEN conn
    ELSE SendOutputs(PTYService_send(conn, Frame("output", sid, origin, None)),
                     sid, origin, n - 1)

\* pty_service.py 171-184: the drain after is_running() has returned False
read_pty_output_drain(c) ==
    /\ conns[c].state = "streaming"
    /\ conns[c].out_pc = "drain"
    /\ LET sid == conns[c].sid
           sess == pty_sessions[sid]
           n == Drained(sess)
       IN IF n = 0
          THEN /\ conns' = [conns EXCEPT ![c].out_pc = "finish"]
               /\ UNCHANGED <<pty_sessions, fd_pty>>
          ELSE /\ fd_pty' = [fd_pty EXCEPT ![sess.master_fd].unread = @ - n]
               /\ pty_sessions' = [pty_sessions EXCEPT ![sid].last_activity = now]
               /\ conns' = [conns EXCEPT ![c] =
                     [SendOutputs(conns[c], sid, fd_pty[sess.master_fd].owner, n)
                         EXCEPT !.out_pc = "finish"]]
    /\ UNCHANGED <<pty_child, open_fds, pty_table, child_writes>>
    /\ ServiceFrame

\* pty_service.py 193-198 with pty_manager.py 133-137: get_exit_code() and
\* the done frame
read_pty_output_finish(c) ==
    /\ conns[c].state = "streaming"
    /\ conns[c].out_pc = "finish"
    /\ LET sid == conns[c].sid
           polled == ~pty_sessions[sid].closed
           after == IF polled
                    THEN SessionAfterIsRunning(pty_sessions[sid], pty_child[sid])
                    ELSE pty_sessions[sid]
       IN /\ pty_sessions' = [pty_sessions EXCEPT ![sid] = after]
          /\ pty_child' = IF polled THEN ChildrenAfterIsRunning({sid}) ELSE pty_child
          /\ conns' = [conns EXCEPT ![c] =
                [PTYService_send(conns[c], Frame("done", sid, 0, after.exit_code))
                    EXCEPT !.out_pc = "ended"]]
    /\ UNCHANGED <<open_fds, pty_table, fd_pty, child_writes>>
    /\ ServiceFrame

\* pty_service.py 206: `while session.is_running()` of read_client_input
read_client_input_poll(c) ==
    /\ conns[c].state = "streaming"
    /\ conns[c].in_alive
    /\ LET sid == conns[c].sid IN
         /\ pty_sessions' = SessionsAfterIsRunning({sid})
         /\ pty_child' = ChildrenAfterIsRunning({sid})
         /\ conns' = [conns EXCEPT ![c].in_alive =
                         IsRunningReturns(pty_sessions[sid], pty_child[sid])]
    /\ UNCHANGED <<open_fds, pty_table, fd_pty, child_writes>>
    /\ ServiceFrame

\* pty_service.py 208-215 with pty_manager.py 92-103: an input frame is
\* written to the session's master descriptor on the loop thread
read_client_input_input(c) ==
    /\ conns[c].state = "streaming"
    /\ conns[c].in_alive
    /\ conns[c].peer_open
    /\ LET sid == conns[c].sid
           sess == pty_sessions[sid]
       IN IF sess.closed \/ sess.master_fd < 0
          THEN UNCHANGED pty_sessions
          ELSE pty_sessions' = [pty_sessions EXCEPT ![sid].last_activity = now]
    /\ UNCHANGED <<pty_child, open_fds, svcVars, termVars>>
    /\ ServiceFrame

\* pty_service.py 217-222 with pty_manager.py 105-111: a signal frame
read_client_input_signal(c, sig) ==
    /\ conns[c].state = "streaming"
    /\ conns[c].in_alive
    /\ conns[c].peer_open
    /\ LET sid == conns[c].sid IN
         IF pty_sessions[sid].pid > 0 /\ pty_child[sid].status = "running"
         THEN pty_child' = [pty_child EXCEPT ![sid].signals = @ \cup {sig}]
         ELSE UNCHANGED pty_child
    /\ UNCHANGED <<pty_sessions, open_fds, svcVars, termVars>>
    /\ ServiceFrame

\* pty_service.py 235-239, 131-136: both tasks are over, the writer is closed
PTYService_stream_ends(c) ==
    /\ conns[c].state = "streaming"
    /\ conns[c].out_pc = "ended"
    /\ ~conns[c].in_alive
    /\ conns' = [conns EXCEPT ![c] = ConnClosed(@)]
    /\ UNCHANGED <<ptyVars, pty_table, fd_pty, child_writes>>
    /\ ServiceFrame

\* a service that would close the session when its client goes away
client_disconnects_closes(c) ==
    /\ conns[c].state = "streaming"
    /\ conns[c].peer_open
    /\ conns' = [conns EXCEPT ![c].peer_open = FALSE]
    /\ CloseSessions({conns[c].sid} \cap pty_table)
    /\ pty_table' = pty_table \ {conns[c].sid}
    /\ UNCHANGED child_writes
    /\ ServiceFrame

\* the client goes away: api.py 700-705 with pty_client.py 109-117 closes
\* the socket and sends nothing
client_disconnects(c) ==
    /\ conns[c].state = "streaming"
    /\ conns[c].peer_open
    /\ conns' = [conns EXCEPT ![c].peer_open = FALSE]
    /\ UNCHANGED <<ptyVars, pty_table, fd_pty, child_writes>>
    /\ ServiceFrame

\* the sessions cleanup finds timed out, and those it finds exited
TimedOut == {s \in pty_table : PTYSession_is_timed_out(pty_sessions[s])}

\* a cleanup that would look at the timeout only
Exited_never == {}

Exited ==
    {s \in pty_table \ TimedOut :
        /\ ~IsRunningReturns(pty_sessions[s], pty_child[s])
        /\ SessionAfterIsRunning(pty_sessions[s], pty_child[s]).closed}

\* pty_manager.py 220-234: cleanup_stale_sessions(), one pass under the lock
PTYSessionManager_cleanup_stale_sessions ==
    /\ LET polled == pty_table \ TimedOut IN
         /\ pty_sessions' = [s \in DOMAIN pty_sessions |->
               IF s \in TimedOut THEN SessionAfterClose(pty_sessions[s])
               ELSE IF s \in polled
                    THEN SessionAfterIsRunning(pty_sessions[s], pty_child[s])
               ELSE pty_sessions[s]]
         /\ pty_child' = [s \in DOMAIN pty_child |->
               IF s \in TimedOut THEN ChildAfterClose(pty_sessions[s], pty_child[s])
               ELSE IF s \in polled
                    THEN ChildAfterIsRunning(pty_sessions[s], pty_child[s])
               ELSE pty_child[s]]
    /\ open_fds' = open_fds \ ClosedFds(TimedOut)
    /\ fd_pty' = [f \in DOMAIN fd_pty \ ClosedFds(TimedOut) |-> fd_pty[f]]
    /\ pty_table' = pty_table \ (TimedOut \cup Exited)
    /\ UNCHANGED <<conns, child_writes>>
    /\ ServiceFrame

\* pty_manager.py 189-207: create_session(), called with a fresh id
PTYSessionManager_create_session(sid, outcome) ==
    /\ pty_sessions[sid].state = "absent"
    /\ pty_sessions' = [pty_sessions EXCEPT ![sid] =
                            SessionAfterStart(outcome, sid, open_fds, now)]
    /\ pty_child' = [pty_child EXCEPT ![sid] = ChildAfterStart(outcome)]
    /\ open_fds' = FdsAfterStart(outcome, open_fds)
    /\ pty_table' = IF StartReturns(outcome) THEN pty_table \cup {sid} ELSE pty_table
    /\ fd_pty' = IF StartReturns(outcome)
                 THEN [f \in DOMAIN fd_pty \cup {AllocFd(open_fds)} |->
                         IF f = AllocFd(open_fds) THEN [owner |-> sid, unread |-> 0]
                         ELSE fd_pty[f]]
                 ELSE fd_pty
    /\ UNCHANGED <<conns, child_writes>>
    /\ ServiceFrame

\* pty_manager.py 213-218: close_session()
PTYSessionManager_close_session(sid) ==
    /\ CloseSessions({sid} \cap pty_table)
    /\ pty_table' = pty_table \ {sid}
    /\ UNCHANGED <<conns, child_writes>>
    /\ ServiceFrame

\* the descriptors of the service that name the PTY of a session
MastersOf(sid) == {f \in DOMAIN fd_pty : fd_pty[f].owner = sid}

\* the child writes a chunk of output to its terminal
child_writes_output(sid) ==
    /\ pty_child[sid].status = "running"
    /\ child_writes < MaxWrites
    /\ MastersOf(sid) # {}
    /\ fd_pty' = [f \in DOMAIN fd_pty |->
          IF fd_pty[f].owner = sid THEN [fd_pty[f] EXCEPT !.unread = @ + 1]
          ELSE fd_pty[f]]
    /\ child_writes' = child_writes + 1
    /\ UNCHANGED <<ptyVars, pty_table, conns>>
    /\ ServiceFrame

\* the requests, tasks and processes of the service
NextService ==
    \/ \E c \in ConnIds, sid \in SessionIds, o \in CreateOutcomes,
          child_first \in BOOLEAN :
             PTYService_handle_create(c, sid, o, child_first)
    \/ \E c \in ConnIds, sid \in SessionIds : PTYService_handle_attach(c, sid)
    \/ \E c \in ConnIds : PTYService_handle_list(c)
    \/ \E c \in ConnIds, sid \in SessionIds : PTYService_handle_close(c, sid)
    \/ \E c \in ConnIds : read_output_begin(c)
    \/ \E c \in ConnIds : read_output_end(c)
    \/ \E c \in ConnIds : read_pty_output_poll(c)
    \/ \E c \in ConnIds : read_pty_output_drain(c)
    \/ \E c \in ConnIds : read_pty_output_finish(c)
    \/ \E c \in ConnIds : read_client_input_poll(c)
    \/ \E c \in ConnIds : read_client_input_input(c)
    \/ \E c \in ConnIds, sig \in Signals : read_client_input_signal(c, sig)
    \/ \E c \in ConnIds : PTYService_stream_ends(c)
    \/ \E c \in ConnIds : client_disconnects(c)
    \/ PTYSessionManager_cleanup_stale_sessions
    \/ \E sid \in SessionIds : child_writes_output(sid)
    \/ \E sid \in SessionIds, code \in ExitCodes : child_exits(sid, code)
    \/ \E sid \in SessionIds, sig \in Signals : child_killed(sid, sig)
    \/ Tick

SpecService == Init /\ [][NextService]_vars

\* the frames a connection has received after a step and had not before
NewFrames(c) ==
    {conns'[c].frames[i] : i \in (Len(conns[c].frames) + 1)..Len(conns'[c].frames)}

\* a create request whose child process does not come to run the command
FailedCreate(c, sid) ==
    \E o \in StartOutcomes \ {"ok"}, child_first \in BOOLEAN :
        PTYService_handle_create(c, sid, o, child_first)

\* C24: when starting the child process for a create request fails, the
\* service replies with an error frame, the new session id is not in the
\* session table afterwards, and no streaming task runs for it.
C24_FailedCreateLeavesNothing ==
    [][\A c \in ConnIds, sid \in SessionIds :
          FailedCreate(c, sid) =>
              /\ \E f \in NewFrames(c) : f.event = "error"
              /\ sid \notin pty_table'
              /\ conns'[c].state # "streaming"]_vars

\* C25: the PTY-to-client task emits the done frame only after the child
\* has exited, with the child's exit code in exit_code, however long the
\* child has stayed silent.
C25_DoneOnlyAfterExit ==
    [][\A c \in ConnIds :
          read_pty_output_finish(c) =>
              LET child == pty_child[conns[c].sid] IN
                /\ child.status # "running"
                /\ child.wstatus.kind # "none" =>
                      \E f \in NewFrames(c) :
                          /\ f.event = "done"
                          /\ f.exit_code = ExitCodeOf(child.wstatus)]_vars

\* the chunks a session's child has written that no read has taken
Unread(sid) ==
    IF MastersOf(sid) = {} THEN 0
    ELSE fd_pty[CHOOSE f \in MastersOf(sid) : TRUE].unread

\* C26: when the child exits while a client is streaming, the output it
\* wrote before exiting and that has not been read is delivered as output
\* frames before the done frame: nothing is left unread when done is sent.
C26_OutputDrainedBeforeDone ==
    [][\A c \in ConnIds :
          (/\ read_pty_output_finish(c)
           /\ conns[c].peer_open
           /\ pty_child[conns[c].sid].wstatus.kind = "exited")
              => Unread(conns[c].sid) = 0]_vars

(***************************************************************************)
(* A client that comes back: it connects again only after its earlier      *)
(* connections have ended, while the tasks the service started for them    *)
(* are still there.  Of the two tasks of a connection only                 *)
(* read_client_input is scheduled here; what read_pty_output does to a     *)
(* session, the is_running() poll, read_client_input does as well.         *)
(***************************************************************************)
\* every earlier connection of the client has ended
Reconnects(c) ==
    \A d \in 1..(c - 1) : conns[d].state = "closed" \/ ~conns[d].peer_open

NextReconnect ==
    \/ \E c \in ServiceConnIds, sid \in SessionIds, o \in {"ok", "fork_fails"} :
          Reconnects(c) /\ PTYService_handle_create(c, sid, o, FALSE)
    \/ \E c \in ServiceConnIds, sid \in SessionIds :
          Reconnects(c) /\ PTYService_handle_attach(c, sid)
    \/ \E c \in ServiceConnIds, sid \in SessionIds :
          Reconnects(c) /\ PTYService_handle_close(c, sid)
    \/ \E c \in ServiceConnIds : read_client_input_poll(c)
    \/ \E c \in ServiceConnIds : read_client_input_input(c)
    \/ \E c \in ServiceConnIds : read_client_input_signal(c, SIGINT)
    \/ \E c \in ServiceConnIds : client_disconnects(c)
    \/ PTYSessionManager_cleanup_stale_sessions
    \/ \E sid \in SessionIds : child_exits(sid, 0)
    \/ \E sid \in SessionIds : child_killed(sid, SIGINT)
    \/ Tick

SpecReconnect == Init /\ [][NextReconnect]_vars

\* the close request for a session, on any connection
ExplicitClose(sid) ==
    \E c \in ServiceConnIds : PTYService_handle_close(c, sid)

\* C27: when a client connection to a running session ends, the service
\* sends no signal to the child and keeps the session in the table: a
\* signal reaches a child only from a client that is still connected to its
\* session, and a session whose child runs leaves the table, and its child
\* is ended by the service, only by a close request or after its timeout;
\* an attach to a session in the table is answered "attached" and streams.
C27_DisconnectKeepsSession ==
    [][\A sid \in SessionIds :
         /\ (\E c \in ServiceConnIds : client_disconnects(c)) =>
                UNCHANGED <<pty_table, pty_sessions, pty_child>>
         /\ pty_child'[sid].signals # pty_child[sid].signals =>
                \E c \in ServiceConnIds :
                    /\ conns[c].state = "streaming"
                    /\ conns[c].sid = sid
                    /\ conns[c].peer_open
         /\ (/\ pty_child[sid].status = "running"
             /\ \/ sid \in pty_table /\ sid \notin pty_table'
                \/ pty_child'[sid].status = "reaped") =>
                \/ ExplicitClose(sid)
                \/ PTYSession_is_timed_out(pty_sessions[sid])
         /\ \A c \in ServiceConnIds :
                PTYService_handle_attach(c, sid) /\ sid \in pty_table =>
                    /\ conns'[c].state = "streaming"
                    /\ conns'[c].sid = sid
                    /\ conns'[c].out_pc = "read"
                    /\ conns'[c].in_alive
                    /\ \E f \in NewFrames(c) :
                          f.event = "attached" /\ f.session_id = sid]_vars

\* the client of a running session has gone and come back: its first
\* connection has ended, the child runs and was sent no signal, and a later
\* connection is attached to the session and has written input to it
C27_Witness ==
    \E sid \in SessionIds, c, d \in ServiceConnIds :
        /\ c < d
        /\ conns[c].sid = sid /\ ~conns[c].peer_open
        /\ conns[d].sid = sid /\ conns[d].state = "streaming"
        /\ conns[d].frames = <<Frame("attached", sid, 0, None)>>
        /\ sid \in pty_table
        /\ pty_child[sid].status = "running"
        /\ pty_child[sid].signals = {}
        /\ now > 0
        /\ pty_sessions[sid].last_activity = now


(***************************************************************************)
(* Sessions that follow one another while a read of the first is still on  *)
(* its executor thread.                                                    *)
(***************************************************************************)
NextRace ==
    \/ \E c \in ServiceConnIds, sid \in ServiceSessionIds :
          PTYService_handle_create(c, sid, "ok", FALSE)
    \/ \E c \in ServiceConnIds, sid \in ServiceSessionIds :
          PTYService_handle_close(c, sid)
    \/ PTYSessionManager_cleanup_stale_sessions
    \/ \E c \in ServiceConnIds : read_output_begin(c)
    \/ \E c \in ServiceConnIds : read_output_end(c)
    \/ \E c \in ServiceConnIds : read_pty_output_poll(c)
    \/ \E c \in ServiceConnIds : read_pty_output_drain(c)
    \/ \E c \in ServiceConnIds : read_pty_output_finish(c)
    \/ \E sid \in ServiceSessionIds : child_writes_output(sid)
    \/ \E sid \in ServiceSessionIds : child_exits(sid, 0)
    \/ Tick

SpecRace == Init /\ [][NextRace]_vars

\* C29: every output frame sent on a connection carries only bytes read
\* from the PTY of the session that connection created or attached to.
C29_OutputFromOwnSession ==
    \A c \in ServiceConnIds :
        \A i \in 1..Len(conns[c].frames) :
            conns[c].frames[i].event = "output" =>
                conns[c].frames[i].origin = conns[c].sid

(***************************************************************************)
(* The session manager alone: its three operations, with the methods of    *)
(* the sessions called at any time, as the tasks of the service and the    *)
(* list request call them.                                                 *)
(***************************************************************************)
NextManager ==
    \/ \E sid \in SessionIds, o \in StartOutcomes :
          PTYSessionManager_create_session(sid, o)
    \/ \E sid \in SessionIds : PTYSessionManager_close_session(sid)
    \/ PTYSessionManager_cleanup_stale_sessions
    \/ \E sid \in SessionIds, data \in BOOLEAN : PTYSession_read_output(sid, data)
    \/ \E sid \in SessionIds, w \in BOOLEAN : PTYSession_write_input(sid, w)
    \/ \E sid \in SessionIds, sig \in Signals : PTYSession_send_signal(sid, sig)
    \/ \E sid \in SessionIds : PTYSession_is_running(sid)
    \/ \E sid \in SessionIds : PTYSession_get_exit_code(sid)
    \/ \E sid \in SessionIds, code \in ExitCodes : child_exits(sid, code)
    \/ \E sid \in SessionIds, sig \in Signals : child_killed(sid, sig)
    \/ Tick

SpecManager == Init /\ [][NextManager]_vars

\* C28: a pass of the cleanup task closes and removes from the table every
\* session whose idle time exceeds its timeout, terminating its child, and
\* every session whose child has exited; a session that is neither timed
\* out nor exited stays in the table, untouched.
C28_CleanupRemovesStaleOnly ==
    [][PTYSessionManager_cleanup_stale_sessions =>
         \A sid \in pty_table :
            LET timed_out == PTYSession_is_timed_out(pty_sessions[sid])
                exited == pty_child[sid].status \in {"zombie", "reaped"}
            IN /\ timed_out =>
                    /\ sid \notin pty_table'
                    /\ pty_sessions'[sid].closed
                    /\ pty_child'[sid].status = "reaped"
               /\ exited =>
                    /\ sid \notin pty_table'
                    /\ pty_sessions'[sid].closed
               /\ ~timed_out /\ ~exited =>
                    /\ sid \in pty_table'
                    /\ pty_sessions'[sid] = pty_sessions[sid]
                    /\ pty_child'[sid] = pty_child[sid]]_vars

\* cleanup has removed a session that had timed out with its child still
\* running, and the child is no more
C28_Witness ==
    \E sid \in SessionIds :
        /\ sid \notin pty_table
        /\ pty_sessions[sid].closed
        /\ pty_sessions[sid].pid > 0
        /\ pty_sessions[sid].exit_code = None
        /\ pty_child[sid].status = "reaped"
        /\ pty_child[sid].signals = {}
        /\ now - pty_sessions[sid].last_activity > SessionTimeout


(***************************************************************************)
(* The reduction pipeline: watchdog.py.  A log line is recorded by what    *)
(* the regular expressions and substring tests of the module find in it:   *)
(* stamp is the second of its syslog time prefix (None without a prefix),  *)
(* tag the presence of NETWORK_TAG, noise the presence of one of the       *)
(* NOISE_PATTERNS, src the octets after SRC= (NoSrc if absent), dpt the    *)
(* number after DPT= (None if absent), icmp the presence of PROTO=ICMP.    *)
(* The lines of the model are kernel lines: none carries the sshd, sudo or *)
(* pam_unix texts of watchdog.py 173-219.                                  *)
(***************************************************************************)
\* config.py 4-13; a port is written as the number its digit string denotes
IGNORED_PORTS ==
    {80, 443, 22, 53, 3389, 5432, 6379, 5353, 5355, 1900, 137, 138, 67, 68,
     32410, 32412, 32414, 17500}

\* config.py 30-33
MANUAL_TRUSTED_PORTS ==
    {22, 80, 443, 1234, 3389, 8080, 9000, 24800, 1716, 27036, 27060}

\* config.py 28: the prefix "10.0.0." as octets
INTERNAL_SUBNET == <<10, 0, 0>>

NoSrc == <<>>
ExternalHost == <<192, 168, 1, 100>>
InternalHost == <<10, 0, 0, 5>>

NetLine(stamp, src, dpt) ==
    [stamp |-> stamp, tag |-> TRUE, noise |-> FALSE, src |-> src, dpt |-> dpt,
     icmp |-> FALSE, marks |-> {}]

\* a line written by two appends, cut between its SRC= and DPT= fields: what
\* a reader sees of it when it reads between the two appends, and afterwards
HeadOf(line) == [line EXCEPT !.dpt = None, !.icmp = FALSE]

TailOf(line) ==
    [stamp |-> None, tag |-> FALSE, noise |-> FALSE, src |-> NoSrc,
     dpt |-> line.dpt, icmp |-> line.icmp, marks |-> {}]

\* watchdog.py 238-240: _parse_log_time has no sub-second part, start_time has
IsStale(line, start) ==
    /\ line.stamp # None
    /\ start.sec # None
    /\ \/ line.stamp < start.sec
       \/ line.stamp = start.sec /\ start.micro > 0

\* watchdog.py 130-144
LogWatchdog_is_noise(line, ports, ips) ==
    \/ line.noise
    \/ line.dpt # None /\ line.dpt \in ports
    \/ line.src # NoSrc /\ line.src \in ips

\* watchdog.py 146-158
LogWatchdog_is_trusted_internal(line, trusted) ==
    /\ line.src # NoSrc
    /\ line.dpt # None
    /\ Len(line.src) >= Len(INTERNAL_SUBNET)
    /\ SubSeq(line.src, 1, Len(INTERNAL_SUBNET)) = INTERNAL_SUBNET
    /\ line.dpt \in trusted

NoParse == [type |-> "none", src |-> NoSrc, port |-> None]

\* the substrings the rules after the first test for; a line's marks are the
\* ones it holds.  "sudo:" holds "sudo", and "pam_unix(<service>" holds
\* "pam_unix" and the service's name
PamMarks == {"pam_unix(login", "pam_unix(sudo", "pam_unix(cron"}

Contains(line, s) ==
    \E m \in line.marks :
        \/ m = s
        \/ s = "sudo" /\ m \in {"sudo:", "pam_unix(sudo"}
        \/ s = "pam_unix" /\ m \in PamMarks

\* watchdog.py 208, 215: service_match.group(1) not in ('sudo', 'cron')
PamServiceReported(line) == "pam_unix(login" \in line.marks

\* an event of the rules after the first: its fields other than the type
\* are not modelled
Event(type) == [type |-> type, src |-> NoSrc, port |-> None]

\* watchdog.py 172-221: the rules after the first
LogWatchdog_parse_later_rules(line) ==
    IF Contains(line, "sshd") /\ Contains(line, "Failed password")
        THEN Event("SSH_AUTH_FAIL")
    ELSE IF Contains(line, "sshd") /\ Contains(line, "Accepted")
        THEN Event("SSH_AUTH_SUCCESS")
    ELSE IF Contains(line, "sshd") /\ Contains(line, "Invalid user")
        THEN Event("SSH_INVALID_USER")
    ELSE IF Contains(line, "sshd") /\ Contains(line, "Connection closed")
        THEN Event("SSH_CONNECTION_CLOSED")
    ELSE IF Contains(line, "sudo:") /\ Contains(line, "COMMAND=")
        THEN Event("SUDO_EXEC")
    ELSE IF Contains(line, "sudo") /\ Contains(line, "authentication failure")
        THEN Event("SUDO_AUTH_FAIL")
    ELSE IF /\ Contains(line, "session opened") /\ Contains(line, "pam_unix")
            /\ PamServiceReported(line)
        THEN Event("SESSION_OPEN")
    ELSE IF /\ Contains(line, "session closed") /\ Contains(line, "pam_unix")
            /\ PamServiceReported(line)
        THEN Event("SESSION_CLOSE")
    ELSE NoParse

\* watchdog.py 160-221: the network rule returns only inside its three
\* branches (164-165, 166-167, 170-171); a tagged line with SRC, without
\* PROTO=ICMP and without DPT goes on to the rules below it
LogWatchdog_parse(line) ==
    IF line.tag /\ line.src = NoSrc THEN NoParse
    ELSE IF line.tag /\ line.icmp
         THEN [type |-> "NET_PING", src |-> line.src, port |-> None]
    ELSE IF line.tag /\ line.dpt # None
         THEN [type |-> "NET_CONN", src |-> line.src, port |-> line.dpt]
    ELSE LogWatchdog_parse_later_rules(line)

\* watchdog.py 238-247: the stage at which the pipeline disposes of a line
Stage(line, start, ports, ips, trusted) ==
    IF IsStale(line, start) THEN "stale"
    ELSE IF LogWatchdog_is_noise(line, ports, ips) THEN "noise"
    ELSE IF LogWatchdog_is_trusted_internal(line, trusted) THEN "trusted"
    ELSE IF LogWatchdog_parse(line) = NoParse THEN "parse_failed"
    ELSE "event"

\* the stage under the lists the running tailer holds
StageInUse(line) ==
    Stage(line, wd_start_time, wd_ignored_ports, wd_ignored_ips,
          trusted_internal_ports)

\* watchdog.py 233: the lines `for line in fh` yields from chunk i on.  A file
\* is the sequence of the chunks appended to it, each a whole line or the
\* head or the tail of one.
RECURSIVE LinesFrom(_, _)
LinesFrom(chunks, i) ==
    IF i > Len(chunks) THEN <<>>
    ELSE IF chunks[i].part = "head" /\ i < Len(chunks)
         THEN <<chunks[i].line>> \o LinesFrom(chunks, i + 2)
    ELSE IF chunks[i].part = "head" THEN <<HeadOf(chunks[i].line)>>
    ELSE IF chunks[i].part = "tail"
         THEN <<TailOf(chunks[i].line)>> \o LinesFrom(chunks, i + 1)
    ELSE <<chunks[i].line>> \o LinesFrom(chunks, i + 1)

\* watchdog.py 245-247: the events the lines append to pending_lines
EventsOf(ls) ==
    LET kept == SelectSeq(ls, LAMBDA l : StageInUse(l) = "event")
    IN [i \in 1..Len(kept) |-> LogWatchdog_parse(kept[i])]

CountStage(ls, st) == Len(SelectSeq(ls, LAMBDA l : StageInUse(l) = st))

\* system1_bench.py 116-146: the counters after the lines ls
MetricsAfter(ls) ==
    [raw_lines |-> metrics.raw_lines + Len(ls),
     noise_filtered |-> metrics.noise_filtered + CountStage(ls, "noise"),
     trust_filtered |-> metrics.trust_filtered + CountStage(ls, "trusted"),
     parse_failed |-> metrics.parse_failed + CountStage(ls, "parse_failed"),
     events_output |-> metrics.events_output + CountStage(ls, "event")]

WatchdogFrame ==
    UNCHANGED <<storeVars, batchStoreVars, agentVars, schedVars, ptyVars, svcVars, termVars>>

\* service_discovery.py 151-160, main.py 104-110: the ports the model
\* identified as trusted, joined with the manual list
LLMTrusted == {{}, {9999}}

main_discover_services(llm_trusted) ==
    /\ wd_pc = "absent"
    /\ trusted_internal_ports = {}
    /\ config.trusted_ports_dynamic = {}
    /\ trusted_internal_ports' = llm_trusted \cup MANUAL_TRUSTED_PORTS
    /\ config' = [config EXCEPT
                     !.trusted_ports_dynamic = llm_trusted \cup MANUAL_TRUSTED_PORTS]
    /\ UNCHANGED <<chat_messages, chat_seq, flags, flag_seq, batchStoreVars,
                   agentVars, schedVars, ptyVars, svcVars, termVars, wd_pc,
                   wd_ignored_ports, wd_ignored_ips, tailVars, fileVars>>

\* watchdog.py 32-61: db says whether a store was passed (main.py 129) or
\* not (system1_bench.py 81-82)
LogWatchdog_init(db) ==
    /\ wd_pc = "absent"
    /\ db => config.trusted_ports_dynamic # {}
    /\ wd_pc' = "constructed"
    /\ wd_ignored_ports' =
          IF db THEN IGNORED_PORTS \cup config.ignored_ports ELSE IGNORED_PORTS
    /\ wd_ignored_ips' = IF db THEN config.ignored_ips ELSE {}
    /\ UNCHANGED <<trusted_internal_ports, tailVars, fileVars>>
    /\ WatchdogFrame

\* watchdog.py 67-81; micro: whether datetime.now() fell on a whole second
LogWatchdog_start_stream(micro) ==
    /\ wd_pc = "constructed"
    /\ wd_pc' = "streaming"
    /\ wd_start_time' = [sec |-> now, micro |-> micro]
    /\ IF fs_path_inode # 0
          THEN /\ wd_handle' = fs_path_inode
               /\ wd_position' = Len(fs_files[fs_path_inode])
               /\ wd_file_inode' = fs_path_inode
          ELSE UNCHANGED <<wd_handle, wd_position, wd_file_inode>>
    /\ UNCHANGED <<wd_ignored_ports, wd_ignored_ips, trusted_internal_ports,
                   pending_lines, delivered, metrics, fileVars>>
    /\ WatchdogFrame

\* watchdog.py 97-111
Rotated == fs_path_inode # 0 /\ fs_path_inode # wd_file_inode

HandleAfterCheck == IF Rotated THEN fs_path_inode ELSE wd_handle

PositionAfterCheck == IF Rotated THEN 0 ELSE wd_position

\* watchdog.py 226-233: the lines one call of _read_new_lines reads
NewLines ==
    IF HandleAfterCheck = 0 THEN <<>>
    ELSE LinesFrom(fs_files[HandleAfterCheck], PositionAfterCheck + 1)

\* watchdog.py 223-251
LogWatchdog_read_new_lines ==
    /\ wd_handle' = HandleAfterCheck
    /\ wd_file_inode' = IF Rotated THEN fs_path_inode ELSE wd_file_inode
    /\ wd_position' = IF HandleAfterCheck = 0 THEN PositionAfterCheck
                      ELSE Len(fs_files[HandleAfterCheck])

\* watchdog.py 253-264, system1_bench.py 152-163: one call; count says whether
\* the call is the instrumented one
ReadStream(count) ==
    /\ wd_pc = "streaming"
    /\ IF pending_lines # <<>>
          THEN /\ delivered' = Append(delivered, Head(pending_lines))
               /\ pending_lines' = Tail(pending_lines)
               /\ UNCHANGED <<wd_handle, wd_file_inode, wd_position, metrics>>
          ELSE /\ LogWatchdog_read_new_lines
               /\ metrics' = IF count THEN MetricsAfter(NewLines) ELSE metrics
               /\ IF EventsOf(NewLines) # <<>>
                     THEN /\ delivered' = Append(delivered, Head(EventsOf(NewLines)))
                          /\ pending_lines' = Tail(EventsOf(NewLines))
                     ELSE UNCHANGED <<delivered, pending_lines>>
    /\ UNCHANGED <<wd_pc, wd_ignored_ports, wd_ignored_ips, trusted_internal_ports,
                   wd_start_time, fileVars>>
    /\ WatchdogFrame

LogWatchdog_read_stream == ReadStream(FALSE)

InstrumentedWatchdog_read_stream_instrumented == ReadStream(TRUE)

\* api.py 189-210: the dashboard replaces one of the lists
ConfigUpdates ==
    [ignored_ports |-> {{}, Ports}, ignored_ips |-> {{}, IPs},
     trusted_ports_manual |-> {{}, {9999}}]

api_update_config(key, value) ==
    /\ key \in DOMAIN ConfigUpdates
    /\ value \in ConfigUpdates[key]
    /\ config[key] # value
    /\ config' = [config EXCEPT ![key] = value]
    /\ UNCHANGED <<chat_messages, chat_seq, flags, flag_seq, batchStoreVars,
                   agentVars, schedVars, ptyVars, wdVars, svcVars, termVars>>

(***************************************************************************)
(* The writer of the monitored file.  It appends to the file the path      *)
(* names; a rotation renames that file away and creates a new one at the   *)
(* same path.                                                              *)
(***************************************************************************)
\* the ports of the scan, in the order the lines are fed
ScanPorts == <<21, 22, 23, 25, 80, 110, 139, 443, 445, 3389>>

\* the lines an unscripted writer may append: connection attempts from an
\* outside and an inside host, stamped with the second they are written in
FreeLines == {NetLine(now, ExternalHost, 8080), NetLine(now, InternalHost, 9999)}

\* the lines of the system log: with or without the network tag and its
\* fields, and with the substrings of one of the later rules or none
SyslogMarks ==
    {{}, {"sshd", "Failed password"}, {"sshd", "Accepted"}, {"sshd", "Invalid user"},
     {"sshd", "Connection closed"}, {"sudo:", "COMMAND="},
     {"sudo", "authentication failure"}, {"session opened", "pam_unix(login"},
     {"session closed", "pam_unix(sudo"}}

SyslogLines ==
    {[stamp |-> None, tag |-> tag, noise |-> FALSE, src |-> src, dpt |-> dpt,
      icmp |-> icmp, marks |-> marks] :
        tag \in BOOLEAN, src \in {NoSrc, ExternalHost}, dpt \in {None, 8080},
        icmp \in BOOLEAN, marks \in SyslogMarks}

\* the lines of a monitored run: the unscripted ones and a connection from
\* the inside host to the SSH port
MonitoredLines == FreeLines \cup {NetLine(now, InternalHost, 22)}

RotateSteps == 2 * MaxLinesPerFile + 2

\* the lines the writer may append at its present step
NextLines ==
    CASE writer_pc.script = "free" ->
            IF writer_pc.step < MaxAppends THEN FreeLines ELSE {}
      [] writer_pc.script = "rotate" ->
            IF \/ writer_pc.step < MaxLinesPerFile
               \/ /\ writer_pc.step >= MaxLinesPerFile + 2
                  /\ writer_pc.step < RotateSteps
               THEN {NetLine(None, ExternalHost, 2000 + writer_pc.step)}
               ELSE {}
      [] writer_pc.script = "scan" ->
            IF writer_pc.step < Len(ScanPorts)
               THEN {NetLine(None, ExternalHost, ScanPorts[writer_pc.step + 1])}
               ELSE {}
      [] writer_pc.script = "monitor" ->
            IF writer_pc.step < MaxAppends THEN MonitoredLines ELSE {}
      [] writer_pc.script = "syslog" ->
            IF writer_pc.step < MaxAppends THEN SyslogLines ELSE {}
      [] writer_pc.script = "internal" ->
            IF writer_pc.step < 1 THEN {NetLine(None, InternalHost, 22)} ELSE {}
      [] OTHER -> {}

\* the last chunk of the file is a line begun and not yet finished
Dangling ==
    /\ fs_path_inode # 0
    /\ fs_files[fs_path_inode] # <<>>
    /\ fs_files[fs_path_inode][Len(fs_files[fs_path_inode])].part = "head"

AppendChunk(line, part) ==
    fs_files' = [fs_files EXCEPT ![fs_path_inode] =
                    Append(@, [line |-> line, part |-> part])]

\* lines_written is the history of the lines appended after start_stream
\* has returned
writer_append(line) ==
    /\ line \in NextLines
    /\ fs_path_inode # 0
    /\ ~Dangling
    /\ writer_pc.script = "free" \/ wd_pc = "streaming"
    /\ AppendChunk(line, "whole")
    /\ lines_written' = IF wd_pc = "streaming" THEN Append(lines_written, line)
                        ELSE lines_written
    /\ writer_pc' = [writer_pc EXCEPT !.step = @ + 1]
    /\ UNCHANGED <<fs_path_inode, wd_pc, wd_ignored_ports, wd_ignored_ips,
                   trusted_internal_ports, tailVars>>
    /\ WatchdogFrame

writer_append_head(line) ==
    /\ writer_pc.script = "free"
    /\ line \in NextLines
    /\ fs_path_inode # 0
    /\ ~Dangling
    /\ wd_pc = "streaming"
    /\ AppendChunk(line, "head")
    /\ writer_pc' = [writer_pc EXCEPT !.step = @ + 1]
    /\ UNCHANGED <<fs_path_inode, lines_written, wd_pc, wd_ignored_ports,
                   wd_ignored_ips, trusted_internal_ports, tailVars>>
    /\ WatchdogFrame

writer_append_tail ==
    /\ Dangling
    /\ LET line == fs_files[fs_path_inode][Len(fs_files[fs_path_inode])].line
       IN /\ AppendChunk(line, "tail")
          /\ lines_written' = Append(lines_written, line)
    /\ UNCHANGED <<fs_path_inode, writer_pc, wd_pc, wd_ignored_ports,
                   wd_ignored_ips, trusted_internal_ports, tailVars>>
    /\ WatchdogFrame

\* the file keeps its inode and its content under its new name
writer_rename ==
    /\ writer_pc.script = "rotate"
    /\ writer_pc.step = MaxLinesPerFile
    /\ fs_path_inode = 1
    /\ fs_path_inode' = 0
    /\ writer_pc' = [writer_pc EXCEPT !.step = @ + 1]
    /\ UNCHANGED <<fs_files, lines_written, wd_pc, wd_ignored_ports,
                   wd_ignored_ips, trusted_internal_ports, tailVars>>
    /\ WatchdogFrame

writer_create ==
    /\ writer_pc.script = "rotate"
    /\ writer_pc.step = MaxLinesPerFile + 1
    /\ fs_path_inode = 0
    /\ fs_path_inode' = 2
    /\ writer_pc' = [writer_pc EXCEPT !.step = @ + 1]
    /\ UNCHANGED <<fs_files, lines_written, wd_pc, wd_ignored_ports,
                   wd_ignored_ips, trusted_internal_ports, tailVars>>
    /\ WatchdogFrame

(***************************************************************************)
(* The daemon's tailer on a live file: start-up, polls, an unscripted      *)
(* writer, the clock and the dashboard's configuration changes.            *)
(***************************************************************************)
InitTail ==
    /\ InitCore
    /\ trusted_internal_ports = {}
    /\ InitTailer
    /\ InitFiles("free")

NextTail ==
    \/ \E llm_trusted \in LLMTrusted : main_discover_services(llm_trusted)
    \/ LogWatchdog_init(TRUE)
    \/ \E micro \in {0, 1} : LogWatchdog_start_stream(micro)
    \/ LogWatchdog_read_stream
    \/ \E line \in FreeLines : writer_append(line)
    \/ \E line \in FreeLines : writer_append_head(line)
    \/ writer_append_tail
    \/ \E key \in DOMAIN ConfigUpdates :
          \E value \in ConfigUpdates[key] : api_update_config(key, value)
    \/ Tick

SpecTail == InitTail /\ [][NextTail]_vars

(***************************************************************************)
(* The tailer across a rotation of the monitored file.                     *)
(***************************************************************************)
InitRotate ==
    /\ InitCore
    /\ trusted_internal_ports = {}
    /\ InitTailer
    /\ InitFiles("rotate")

NextRotate ==
    \/ LogWatchdog_init(FALSE)
    \/ \E micro \in {0, 1} : LogWatchdog_start_stream(micro)
    \/ LogWatchdog_read_stream
    \/ \E line \in NextLines : writer_append(line)
    \/ writer_rename
    \/ writer_create

SpecRotate == InitRotate /\ [][NextRotate]_vars

(***************************************************************************)
(* The instrumented pipeline fed a fixed list of lines.                    *)
(***************************************************************************)
\* config.TRUSTED_INTERNAL_PORTS as the caller sets it: the default of
\* config.py 26, or the ports 22 and 443
TrustedPortSettings == {{}, {22, 443}}

InitBench ==
    /\ InitCore
    /\ trusted_internal_ports \in TrustedPortSettings
    /\ InitTailer
    /\ \E script \in {"scan", "internal"} : InitFiles(script)

NextBench ==
    \/ LogWatchdog_init(FALSE)
    \/ \E micro \in {0, 1} : LogWatchdog_start_stream(micro)
    \/ InstrumentedWatchdog_read_stream_instrumented
    \/ \E line \in NextLines : writer_append(line)

SpecBench == InitBench /\ [][NextBench]_vars

(***************************************************************************)
(* The tailer reading a system log of network and service lines.           *)
(***************************************************************************)
InitParse ==
    /\ InitCore
    /\ trusted_internal_ports = {}
    /\ InitTailer
    /\ InitFiles("syslog")

NextParse ==
    \/ LogWatchdog_init(FALSE)
    \/ \E micro \in {0, 1} : LogWatchdog_start_stream(micro)
    \/ LogWatchdog_read_stream
    \/ \E line \in NextLines : writer_append(line)

SpecParse == InitParse /\ [][NextParse]_vars

(***************************************************************************)
(* Properties of the reduction pipeline                                    *)
(***************************************************************************)
\* the stage at which a line is disposed of under the configuration the store
\* holds now: the ignore lists of the store joined with the built-in ports,
\* and the dynamic and manual trusted ports
ConfiguredStage(line) ==
    Stage(line, wd_start_time, IGNORED_PORTS \cup config.ignored_ports,
          config.ignored_ips,
          config.trusted_ports_dynamic \cup config.trusted_ports_manual)

\* a step in which the running tailer reads lines from the file
ProcessesLines ==
    /\ wd_pc = "streaming"
    /\ pending_lines = <<>>
    /\ NewLines # <<>>
    /\ wd_position' # wd_position \/ wd_handle' # wd_handle

\* C14: after set_config has changed ignored_ports, ignored_ips or a
\* trusted-ports key, every line the running pipeline processes next is
\* disposed of by the noise gate and the trust filter as the new value says,
\* without a restart of the daemon.
C14_ConfigChangeTakesEffect ==
    [][ProcessesLines =>
          \A i \in 1..Len(NewLines) :
              StageInUse(NewLines[i]) = ConfiguredStage(NewLines[i])]_vars

\* the events of the lines the writer appended, in append order
EventsWritten ==
    [i \in 1..Len(lines_written) |-> LogWatchdog_parse(lines_written[i])]

\* the tailer has read the file at the path to its end and handed out every
\* pending event: no later call can return an event of a line appended so far
CaughtUp ==
    /\ wd_pc = "streaming"
    /\ pending_lines = <<>>
    /\ ~Rotated
    /\ ~Dangling
    /\ wd_handle # 0
    /\ wd_position = Len(fs_files[wd_handle])

RotationDone == writer_pc.script = "rotate" /\ writer_pc.step = RotateSteps

\* C17: for every interleaving of polls with the writer's steps (append five
\* lines, rename, create, append five more), once the writer is done and the
\* tailer has caught up, read_stream has returned all ten events, each once
\* and in append order, those of the rotated-away file first.
C17_AllEventsAcrossRotation ==
    (RotationDone /\ CaughtUp) => delivered = EventsWritten

\* the events of the lines among ls that pass the noise gate and the trust
\* filter of the running tailer and parse
PassingEvents(ls) ==
    LET kept == SelectSeq(ls, LAMBDA l :
                    /\ ~LogWatchdog_is_noise(l, wd_ignored_ports, wd_ignored_ips)
                    /\ ~LogWatchdog_is_trusted_internal(l, trusted_internal_ports)
                    /\ LogWatchdog_parse(l) # NoParse)
    IN [i \in 1..Len(kept) |-> LogWatchdog_parse(kept[i])]

\* C18: without rotation, once the tailer has caught up, every line appended
\* after start_stream returned that passes the filters and parses has been
\* returned by read_stream exactly once and in file order, a line stamped
\* with the second of the start and a line written by two appends included.
C18_EveryAppendedLineDelivered ==
    (writer_pc.script = "free" /\ CaughtUp) =>
        delivered = PassingEvents(lines_written)

\* C19: with TRUSTED_INTERNAL_PORTS = {22, 443} and the rest at its defaults,
\* the line with SRC=10.0.0.5 and DPT=22 is rejected at the trust filter:
\* trust_filtered is 1, noise_filtered 0 and events_output 0.
C19_InternalLineTrustFiltered ==
    (/\ writer_pc.script = "internal"
     /\ trusted_internal_ports = {22, 443}
     /\ metrics.raw_lines = 1)
        => /\ metrics.trust_filtered = 1
           /\ metrics.noise_filtered = 0
           /\ metrics.events_output = 0

\* C20: with the default configuration, the ten scan lines from
\* 192.168.1.100 yield exactly ten NET_CONN events, with noise_filtered,
\* trust_filtered and parse_failed all 0.
C20_ScanYieldsTenEvents ==
    (/\ writer_pc.script = "scan"
     /\ trusted_internal_ports = {}
     /\ metrics.raw_lines = Len(ScanPorts))
        => /\ metrics.events_output = Len(ScanPorts)
           /\ metrics.noise_filtered = 0
           /\ metrics.trust_filtered = 0
           /\ metrics.parse_failed = 0
           /\ Len(delivered \o pending_lines) = Len(ScanPorts)
           /\ \A i \in 1..Len(delivered \o pending_lines) :
                 (delivered \o pending_lines)[i].type = "NET_CONN"

\* the parse stage is reached by the lines the gates let through
Parsed(line) == StageInUse(line) \in {"parse_failed", "event"}

\* the outcome of the network rule taken alone
NetworkRule(line) ==
    IF line.src # NoSrc /\ line.icmp
        THEN [type |-> "NET_PING", src |-> line.src, port |-> None]
    ELSE IF line.src # NoSrc /\ line.dpt # None
        THEN [type |-> "NET_CONN", src |-> line.src, port |-> line.dpt]
    ELSE NoParse

\* C35: for every line containing the network tag, parse is decided by
\* rule 1 alone: NET_PING if PROTO=ICMP and SRC are present, otherwise
\* NET_CONN if DPT is present, otherwise no event; no later rule (sshd,
\* sudo, session) is applied to a network-tagged line, even when the line
\* also contains that rule's substrings.
C35_NetworkLinesDecidedByRule1 ==
    [][ProcessesLines =>
         \A i \in 1..Len(NewLines) :
             (NewLines[i].tag /\ Parsed(NewLines[i])) =>
                 LogWatchdog_parse(NewLines[i]) = NetworkRule(NewLines[i])]_vars

(***************************************************************************)
(* The dashboard's terminal endpoints: api.py 603-705.  The handlers run   *)
(* on one event loop, so a step is the code between two awaits.            *)
(***************************************************************************)
TerminalFrame ==
    UNCHANGED <<storeVars, batchStoreVars, agentVars, schedVars, ptyVars, wdVars,
                svcVars>>

\* str(uuid.uuid4())[:8]: eight hex digits, not checked against the ids in use
CommandIds == {"0a1b2c3d", "4e5f6a7b"}
Commands == {"ls", "top"}

\* a lookup that would leave the entry in place
dict_get(d, k) == d

\* api.py 631: what _pending_commands.pop(command_id, None) leaves
dict_pop(d, k) == [x \in DOMAIN d \ {k} |-> d[x]]

\* api.py 631: what _pending_commands.pop(command_id, None) returns
Popped(d, k) == IF k \in DOMAIN d THEN d[k] ELSE NoCommand

\* api.py 605-620; an empty command is refused with status 400 and nothing
\* is stored
prepare_terminal_command(command_id, command) ==
    /\ Len(prepare_log) < MaxPrepares
    /\ command # NoCommand
    /\ pending_commands' =
          [x \in DOMAIN pending_commands \cup {command_id} |->
              IF x = command_id THEN command ELSE pending_commands[x]]
    /\ prepare_log' = Append(prepare_log, command_id)
    /\ UNCHANGED ws
    /\ TerminalFrame

\* api.py 622-629: a client opens /ws/terminal/{command_id}; the handler
\* waits in websocket.accept()
terminal_websocket_open(w, command_id) ==
    /\ ws[w].pc = "idle"
    /\ ws' = [ws EXCEPT ![w] = [@ EXCEPT !.pc = "accepting", !.command_id = command_id]]
    /\ UNCHANGED <<pending_commands, prepare_log>>
    /\ TerminalFrame

\* api.py 631-638: the pop, and either the error reply or the call of
\* pty_client.connect()
terminal_websocket_pop(w) ==
    /\ ws[w].pc = "accepting"
    /\ LET command == Popped(pending_commands, ws[w].command_id) IN
          ws' = [ws EXCEPT ![w] =
                    [@ EXCEPT !.command = command,
                              !.pc = IF command = NoCommand THEN "rejected"
                                     ELSE "connecting"]]
    /\ pending_commands' = dict_pop(pending_commands, ws[w].command_id)
    /\ UNCHANGED prepare_log
    /\ TerminalFrame

\* api.py 637-642: connect() has returned; pty_client.py 20-30
terminal_websocket_connected(w, connected) ==
    /\ ws[w].pc = "connecting"
    /\ ws' = [ws EXCEPT ![w].pc = IF connected THEN "creating" ELSE "failed"]
    /\ UNCHANGED <<pending_commands, prepare_log>>
    /\ TerminalFrame

\* api.py 646-654, pty_client.py 33-46: create_session sends one "create"
\* request for the command and the service answers
terminal_websocket_create(w, status) ==
    /\ ws[w].pc = "creating"
    /\ ws' = [ws EXCEPT ![w] =
                 [@ EXCEPT !.started = TRUE,
                           !.pc = IF status = "created" THEN "streaming" ELSE "failed"]]
    /\ UNCHANGED <<pending_commands, prepare_log>>
    /\ TerminalFrame

\* api.py 659-705: the stream ends and the websocket is closed
terminal_websocket_close(w) ==
    /\ ws[w].pc = "streaming"
    /\ ws' = [ws EXCEPT ![w].pc = "closed"]
    /\ UNCHANGED <<pending_commands, prepare_log>>
    /\ TerminalFrame

NextTerminal ==
    \/ \E k \in CommandIds, c \in Commands : prepare_terminal_command(k, c)
    \/ \E w \in WsIds, k \in CommandIds : terminal_websocket_open(w, k)
    \/ \E w \in WsIds : terminal_websocket_pop(w)
    \/ \E w \in WsIds, connected \in BOOLEAN : terminal_websocket_connected(w, connected)
    \/ \E w \in WsIds, status \in {"created", "error"} : terminal_websocket_create(w, status)
    \/ \E w \in WsIds : terminal_websocket_close(w)

SpecTerminal == Init /\ [][NextTerminal]_vars

\* how often prepare_terminal_command has issued the id
Issued(k) == Cardinality({i \in DOMAIN prepare_log : prepare_log[i] = k})

\* the websockets that have asked the PTY service for a session under the id
Starters(k) == {w \in WsIds : ws[w].started /\ ws[w].command_id = k}

\* the websockets that hold the id's command, popped and not yet refused
Holders(k) ==
    {w \in WsIds : ws[w].command_id = k /\ ws[w].command # NoCommand}

\* C36: each command id issued by the terminal-prepare step starts at most
\* one PTY session: opening the terminal WebSocket consumes the pending
\* command, a second WebSocket with the same id (also when opened
\* concurrently) gets an error and starts nothing, and an id that was never
\* prepared starts nothing.
C36_OneSessionPerCommandId ==
    /\ [](\A k \in CommandIds :
            /\ Cardinality(Starters(k)) <= Issued(k)
            /\ Starters(k) \subseteq Holders(k)
            /\ Cardinality(Holders(k)) + (IF k \in DOMAIN pending_commands THEN 1 ELSE 0)
                   <= Issued(k)
            /\ \A w \in WsIds : ws[w].pc = "rejected" => ~ws[w].started)
    /\ [][\A w \in WsIds :
            terminal_websocket_pop(w) =>
                /\ ws[w].command_id \notin DOMAIN pending_commands'
                /\ (ws[w].command_id \notin DOMAIN pending_commands
                        => ws'[w].pc = "rejected")]_vars

\* two websockets were opened for one id issued once: one has started its
\* session, the other was refused
C36_Witness ==
    \E w1, w2 \in WsIds :
        /\ w1 # w2
        /\ ws[w1].command_id = ws[w2].command_id
        /\ Issued(ws[w1].command_id) = 1
        /\ ws[w1].started /\ ws[w1].pc = "streaming"
        /\ ws[w2].pc = "rejected"

\* the persisted events of a batch
EventsOfBatch(b) == {e \in events : e.batch_id = b}

\* C37: when no purge or cleanup has been applied, and across crashes and
\* restarts of the daemon, every persisted decision d has event_count equal
\* to the number of persisted events whose batch_id equals d.batch_id, and
\* the flag created for d lists exactly the ids of those events.
C37_DecisionMatchesItsEvents ==
    \A d \in decisions :
        /\ d.event_count = Cardinality(EventsOfBatch(d.batch_id))
        /\ \A i \in FlagsOfBatch(d.batch_id) :
               {flags[i].event_ids[j] : j \in DOMAIN flags[i].event_ids}
                   = {e.id : e \in EventsOfBatch(d.batch_id)}

\* pty_manager.py 246-252: close_all(), at the shutdown of the service
PTYSessionManager_close_all ==
    /\ pty_table # {}
    /\ CloseSessions(pty_table)
    /\ pty_table' = {}
    /\ UNCHANGED <<conns, child_writes>>
    /\ ServiceFrame

\* the session table with every way a session leaves it
NextRemoval ==
    \/ NextManager
    \/ PTYSessionManager_close_all

SpecRemoval == Init /\ [][NextRemoval]_vars

\* C38: whenever a session is removed from the session table (close
\* action, cleanup of a timed-out or exited session, close_all), its master
\* file descriptor has been closed (master_fd = -1) and its child has been
\* reaped; no removal leaves an open descriptor behind.
C38_RemovedSessionIsClosed ==
    [][\A sid \in pty_table \ pty_table' :
          /\ pty_sessions'[sid].master_fd = -1
          /\ \A f \in DOMAIN fd_pty' : fd_pty'[f].owner # sid
          /\ pty_child'[sid].status = "reaped"]_vars

(***************************************************************************)
(* The instrumented pipeline monitoring a file that is being written:      *)
(* system1_bench.py 440-490.                                               *)
(***************************************************************************)
\* system1_bench.py 86-88: reset_metrics()
InstrumentedWatchdog_reset_metrics ==
    /\ wd_pc # "absent"
    /\ metrics # ZeroMetrics
    /\ metrics' = ZeroMetrics
    /\ UNCHANGED <<wd_pc, wd_ignored_ports, wd_ignored_ips, trusted_internal_ports,
                   wd_start_time, wd_handle, wd_file_inode, wd_position,
                   pending_lines, delivered, fileVars>>
    /\ WatchdogFrame

InitMonitor ==
    /\ InitCore
    /\ trusted_internal_ports \in TrustedPortSettings
    /\ InitTailer
    /\ InitFiles("monitor")

NextMonitor ==
    \/ LogWatchdog_init(FALSE)
    \/ \E micro \in {0, 1} : LogWatchdog_start_stream(micro)
    \/ InstrumentedWatchdog_read_stream_instrumented
    \/ InstrumentedWatchdog_reset_metrics
    \/ \E line \in NextLines : writer_append(line)
    \/ Tick

SpecMonitor == InitMonitor /\ [][NextMonitor]_vars

\* the lines of a read that match the noise gate and the trust filter both
BothFilters(ls) ==
    {i \in 1..Len(ls) :
        /\ ~IsStale(ls[i], wd_start_time)
        /\ LogWatchdog_is_noise(ls[i], wd_ignored_ports, wd_ignored_ips)
        /\ LogWatchdog_is_trusted_internal(ls[i], trusted_internal_ports)}

\* C39: after any sequence of lines processed by the instrumented pipeline
\* since the last counter reset, raw_lines = noise_filtered + trust_filtered
\* + parse_failed + events_output: every raw line is counted in exactly one
\* stage outcome, and a line matching both the noise gate and the trust
\* filter is counted as noise only.
C39_CountersAddUp ==
    /\ [](metrics.raw_lines = metrics.noise_filtered + metrics.trust_filtered
                                + metrics.parse_failed + metrics.events_output)
    /\ [][(ProcessesLines /\ Len(NewLines) = Cardinality(BothFilters(NewLines))) =>
            /\ metrics'.noise_filtered = metrics.noise_filtered + Len(NewLines)
            /\ metrics'.trust_filtered = metrics.trust_filtered]_vars

(***************************************************************************)
(* The whole system                                                        *)
(***************************************************************************)
Next ==
    \/ NextAgent \/ NextSched \/ NextFlags \/ NextPty
    \/ NextTail \/ NextRotate \/ NextBench
    \/ NextDaemon \/ NextService \/ NextManager \/ NextReconnect \/ NextRace
    \/ NextLoop \/ NextStore \/ NextParse \/ NextTerminal \/ NextRemoval \/ NextMonitor

Spec == Init /\ [][Next]_vars

====
